---- MODULE Spec2Model ----
(***************************************************************************)
(* Model of the scoring engine of protein_analyser (src/scorer.py).        *)
(*                                                                         *)
(* Numbers.  Python floats are modelled exactly:                           *)
(*   - a fact value or a metric is a rational [n |-> Int, d |-> Nat \ {0}];*)
(*   - a number of the scoring specification (weight, normalized score,    *)
(*     penalty) is an integer count of hundredths (Scale);                 *)
(*   - a product of two such numbers is a count of 1/Scale^2 = 1e-4, which *)
(*     is the grid round(x, 4) rounds to.                                  *)
(* Binary rounding error is not represented, except where round(x, 4)      *)
(* meets an exact tie (Round4).                                            *)
(*                                                                         *)
(* Optional[T]: None is <<>>, a present value v is <<v>>.                  *)
(* str: a sequence of one-character strings, so that range tokens can be   *)
(* parsed as _value_matches_range parses them; a name that is only ever    *)
(* compared, never parsed, is a TLA+ string.                               *)
(***************************************************************************)
EXTENDS Integers, Sequences, FiniteSets, TLC

\* one call of Scorer.score_brand
VARIABLES spec, data, pc, metrics, amino_spiking, cut_score, bulk_score, clean_score

\* one call of Scorer._value_matches_range: its arguments and what it returned
VARIABLES probe, matches

scorer_vars == <<spec, data, pc, metrics, amino_spiking, cut_score, bulk_score, clean_score>>

matcher_vars == <<probe, matches>>

\* one call of get_leaderboard: its arguments and what it returned
VARIABLES results, board_mode, leaderboard

board_vars == <<results, board_mode, leaderboard>>

\* one call of score_all_brands: the entries of output_dir as iterdir yields
\* them, the entry the loop is at, the local list "results", and how far the
\* call has got
VARIABLES listing, position, batch_results, batch_pc

batch_vars == <<listing, position, batch_results, batch_pc>>

\* two calls of score_brand on the same record: what the first call gave,
\* and the way the arithmetic of this run rounds a tie in each mode
VARIABLES previous, rounding

repeat_vars == <<previous, rounding>>

\* calls of push_brand: the tables of the database, the JSON file of each
\* brand directory, what the last call returned, and the number of calls
VARIABLES db, files, pushed, pushes

db_vars == <<db, files, pushed, pushes>>

\* an extractor: its schema, the parsed response of the model, what
\* validate_output returned for it, and what extract gave
VARIABLES schema, output, validated, extraction

extractor_vars == <<schema, output, validated, extraction>>

\* one lookup of a value in the range tables: the tables, the metric and
\* the value, and what normalize_value and get_penalty_value returned
VARIABLES query, lookup_score, lookup_penalty

lookup_vars == <<query, lookup_score, lookup_penalty>>

vars == <<scorer_vars, matcher_vars, board_vars, batch_vars, repeat_vars, db_vars, extractor_vars,
          lookup_vars>>

----------------------------------------------------------------------------
(* Optional values *)

None == <<>>

Some(v) == <<v>>

IsNone(o) == o = None

Val(o) == o[1]

----------------------------------------------------------------------------
(* Exact numbers standing for Python floats *)

R(a, b) == [n |-> a, d |-> b]

RLe(x, y) == x.n * y.d <= y.n * x.d

RLt(x, y) == x.n * y.d < y.n * x.d

REq(x, y) == x.n * y.d = y.n * x.d

RMul(x, y) == R(x.n * y.n, x.d * y.d)

\* x / y for y # 0; the sign is kept in the numerator
RDiv(x, y) == IF y.n > 0 THEN R(x.n * y.d, x.d * y.n) ELSE R(-(x.n * y.d), x.d * (-y.n))

RAdd(x, y) == R(x.n * y.d + y.n * x.d, x.d * y.d)

\* faulty variant: the ratio is not capped
Uncapped(x, y) == x

\* min(x, y)
RMin(x, y) == IF RLe(x, y) THEN x ELSE y

\* Python truthiness of an Optional[float]: None and 0 are falsy
Truthy(o) == o # None /\ Val(o).n # 0

\* Python truthiness of an Optional[bool]
TruthyBool(o) == o # None /\ Val(o)

----------------------------------------------------------------------------
(* Strings as character sequences *)

Digits == {"0", "1", "2", "3", "4", "5", "6", "7", "8", "9"}

DigitVal(c) ==
    CASE c = "0" -> 0 [] c = "1" -> 1 [] c = "2" -> 2 [] c = "3" -> 3 [] c = "4" -> 4
      [] c = "5" -> 5 [] c = "6" -> 6 [] c = "7" -> 7 [] c = "8" -> 8 [] c = "9" -> 9

\* str.replace(ch, "")
RECURSIVE Remove(_, _)
Remove(s, ch) ==
    IF s = <<>> THEN <<>>
    ELSE IF Head(s) = ch THEN Remove(Tail(s), ch)
    ELSE <<Head(s)>> \o Remove(Tail(s), ch)

\* str.startswith(p)
StartsWith(s, p) == Len(s) >= Len(p) /\ SubSeq(s, 1, Len(p)) = p

\* s[k:]
From(s, k) == SubSeq(s, k + 1, Len(s))

\* ch in s
Contains(s, ch) == \E i \in 1..Len(s) : s[i] = ch

\* str.split(ch): the pieces between the occurrences of ch
RECURSIVE Split(_, _)
Split(s, ch) ==
    IF ~Contains(s, ch) THEN <<s>>
    ELSE LET i == CHOOSE k \in 1..Len(s) : s[k] = ch /\ \A j \in 1..(k - 1) : s[j] # ch
         IN  <<SubSeq(s, 1, i - 1)>> \o Split(From(s, i), ch)

\* str.strip() as float() applies it, for the blank
RECURSIVE LStrip(_)
LStrip(s) == IF s # <<>> /\ Head(s) = " " THEN LStrip(Tail(s)) ELSE s

RECURSIVE RStrip(_)
RStrip(s) == IF s # <<>> /\ s[Len(s)] = " " THEN RStrip(SubSeq(s, 1, Len(s) - 1)) ELSE s

RECURSIVE DigitsToNat(_)
DigitsToNat(s) ==
    IF s = <<>> THEN 0 ELSE 10 * DigitsToNat(SubSeq(s, 1, Len(s) - 1)) + DigitVal(s[Len(s)])

RECURSIVE Pow10(_)
Pow10(k) == IF k = 0 THEN 1 ELSE 10 * Pow10(k - 1)

\* float(s) for the decimal literals a range token holds: blanks stripped, an
\* optional sign, digits with at most one point and at least one digit.
\* Anything else raises ValueError.
ParseDigits(ip, fp, sign) ==
    IF /\ Len(ip) + Len(fp) >= 1
       /\ \A i \in 1..Len(ip) : ip[i] \in Digits
       /\ \A i \in 1..Len(fp) : fp[i] \in Digits
    THEN [raised |-> FALSE, val |-> R(sign * DigitsToNat(ip \o fp), Pow10(Len(fp)))]
    ELSE [raised |-> TRUE, val |-> R(0, 1)]

ParseParts(prts, sign) ==
    IF Len(prts) > 2 THEN [raised |-> TRUE, val |-> R(0, 1)]
    ELSE ParseDigits(prts[1], IF Len(prts) = 2 THEN prts[2] ELSE <<>>, sign)

ParseSigned(t) ==
    ParseParts(Split(IF t # <<>> /\ Head(t) \in {"-", "+"} THEN Tail(t) ELSE t, "."),
               IF t # <<>> /\ Head(t) = "-" THEN -1 ELSE 1)

ParseFloat(s) == ParseSigned(RStrip(LStrip(s)))

----------------------------------------------------------------------------
(* Scorer._value_matches_range *)

Ret(b) == [raised |-> FALSE, result |-> b]

Raise == [raised |-> TRUE, result |-> FALSE]

\* faulty variant: startswith(">") and startswith("<") are tested first
BranchStrictFirst(r) ==
    IF StartsWith(r, <<">">>) THEN ">"
    ELSE IF StartsWith(r, <<">", "=">>) THEN ">="
    ELSE IF StartsWith(r, <<"<">>) THEN "<"
    ELSE IF StartsWith(r, <<"<", "=">>) THEN "<="
    ELSE IF Contains(r, "-") THEN "-"
    ELSE "=="

\* the branch of the if/elif chain a token takes, in the order it is tested
Branch(r) ==
    IF StartsWith(r, <<">", "=">>) THEN ">="
    ELSE IF StartsWith(r, <<">">>) THEN ">"
    ELSE IF StartsWith(r, <<"<", "=">>) THEN "<="
    ELSE IF StartsWith(r, <<"<">>) THEN "<"
    ELSE IF Contains(r, "-") THEN "-"
    ELSE "=="

\* "return value <op> threshold" with threshold = float(...)
Compare(branch, value, threshold) ==
    IF threshold.raised THEN Raise
    ELSE Ret(CASE branch = ">=" -> RLe(threshold.val, value)
               [] branch = ">"  -> RLt(threshold.val, value)
               [] branch = "<=" -> RLe(value, threshold.val)
               [] branch = "<"  -> RLt(value, threshold.val)
               [] branch = "==" -> REq(value, threshold.val))

\* "float(low) <= value <= float(high)": float(high) is evaluated only when
\* float(low) <= value holds
AtMost(value, high) == IF high.raised THEN Raise ELSE Ret(RLe(value, high.val))

Between(low, value, high_text) ==
    IF low.raised THEN Raise
    ELSE IF ~RLe(low.val, value) THEN Ret(FALSE)
    ELSE AtMost(value, ParseFloat(high_text))

\* "low, high = range_str.split('-')" raises unless there are two pieces
InRange(value, parts) ==
    IF Len(parts) # 2 THEN Raise ELSE Between(ParseFloat(parts[1]), value, parts[2])

MatchBranch(branch, value, r) ==
    IF branch = "-" THEN InRange(value, Split(r, "-"))
    ELSE Compare(branch, value,
                 ParseFloat(From(r, IF branch \in {">=", "<="} THEN 2
                                    ELSE IF branch \in {">", "<"} THEN 1 ELSE 0)))

MatchStripped(value, r) == MatchBranch(Branch(r), value, r)

_value_matches_range(value, range_str) == MatchStripped(value, Remove(range_str, "%"))

----------------------------------------------------------------------------
(* The fact record: data = json.load(...) of output/<brand>/<brand>.json.   *)
(* A block ("nutrients", "aminoacids") is a dict, is null (the field of     *)
(* BrandExtractionResult left at its default None and dumped), or is        *)
(* missing from the mapping.                                                *)

Block(k, fields) == [kind |-> k, extracted_fields |-> fields]

NoNutrients ==
    [serving_size_g |-> None, protein_g_per_serving |-> None,
     energy_kcal_per_serving |-> None, carbohydrates_g_per_serving |-> None,
     total_fat_g_per_serving |-> None, sodium_mg_per_serving |-> None,
     added_sugar_g_per_serving |-> None, heavy_metals_tested |-> None]

NoAminoacids ==
    [serving_basis |-> None,
     eaas |-> [total_g |-> None, bcaas |-> [total_g |-> None, leucine_g |-> None]],
     seaas |-> [glycine_g |-> None, taurine_g |-> None]]

\* data.get(key, {}).get("extracted_fields", {}): None.get raises AttributeError
GetFields(block, empty) ==
    IF block.kind = "null" THEN [raised |-> TRUE, val |-> empty]
    ELSE IF block.kind = "missing" THEN [raised |-> FALSE, val |-> empty]
    ELSE [raised |-> FALSE, val |-> block.extracted_fields]

----------------------------------------------------------------------------
(* Scorer.compute_metrics *)

NoMetrics ==
    [protein_pct |-> None, protein_per_100_kcal |-> None, eaas_pct_raw |-> None,
     eaas_pct |-> None, bcaas_pct_of_eaas |-> None, non_protein_macros_g |-> None,
     leucine_g_per_serving |-> None, protein_g_per_serving |-> None,
     sodium_mg |-> None, added_sugar_g |-> None, taurine_g |-> None,
     heavy_metals_tested |-> None, missing_macros |-> FALSE,
     sodium_reported_zero |-> FALSE]

\* normalization_factor of lines 113-116
NormalizationFactor(serving_basis, serving_size_g) ==
    IF serving_basis = Some("per_100g") /\ Truthy(serving_size_g)
    THEN RDiv(Val(serving_size_g), R(100, 1))
    ELSE R(1, 1)

\* faulty variant: the quantity is used as declared
ApplyNothing(x, factor) == x

\* "if x and normalization_factor != 1.0: x *= normalization_factor"
ApplyNormalization(x, factor) ==
    IF Truthy(x) /\ ~REq(factor, R(1, 1)) THEN Some(RMul(Val(x), factor)) ELSE x

MetricsOf(nutrients, aminoacids) ==
    LET serving_size_g == nutrients.serving_size_g
        protein_g      == nutrients.protein_g_per_serving
        energy_kcal    == nutrients.energy_kcal_per_serving
        carbs_g        == nutrients.carbohydrates_g_per_serving
        fat_g          == nutrients.total_fat_g_per_serving
        sodium_mg      == nutrients.sodium_mg_per_serving
        factor   == NormalizationFactor(aminoacids.serving_basis, serving_size_g)
        eaas_g    == ApplyNormalization(aminoacids.eaas.total_g, factor)
        bcaas_g   == ApplyNormalization(aminoacids.eaas.bcaas.total_g, factor)
        leucine_g == ApplyNormalization(aminoacids.eaas.bcaas.leucine_g, factor)
        taurine_g == ApplyNormalization(aminoacids.seaas.taurine_g, factor)
        eaas_raw  == IF Truthy(eaas_g) /\ Truthy(protein_g)
                     THEN Some(RDiv(Val(eaas_g), Val(protein_g))) ELSE None
    IN  [protein_pct |->
            IF Truthy(protein_g) /\ Truthy(serving_size_g)
            THEN Some(RMul(RDiv(Val(protein_g), Val(serving_size_g)), R(100, 1))) ELSE None,
         protein_per_100_kcal |->
            IF Truthy(protein_g) /\ Truthy(energy_kcal)
            THEN Some(RMul(RDiv(Val(protein_g), Val(energy_kcal)), R(100, 1))) ELSE None,
         eaas_pct_raw |-> eaas_raw,
         eaas_pct |-> IF eaas_raw # None THEN Some(RMin(Val(eaas_raw), R(1, 1))) ELSE None,
         bcaas_pct_of_eaas |->
            IF Truthy(bcaas_g) /\ Truthy(eaas_g)
            THEN Some(RDiv(Val(bcaas_g), Val(eaas_g))) ELSE None,
         non_protein_macros_g |->
            IF carbs_g # None /\ fat_g # None
            THEN Some(RAdd(Val(carbs_g), Val(fat_g))) ELSE None,
         leucine_g_per_serving |-> leucine_g,
         protein_g_per_serving |-> protein_g,
         sodium_mg |-> sodium_mg,
         added_sugar_g |-> nutrients.added_sugar_g_per_serving,
         taurine_g |-> taurine_g,
         heavy_metals_tested |-> nutrients.heavy_metals_tested,
         missing_macros |-> (protein_g = None \/ carbs_g = None \/ fat_g = None),
         sodium_reported_zero |-> (sodium_mg # None /\ Val(sodium_mg).n = 0)]

compute_metrics(d) ==
    LET nutrients  == GetFields(d.nutrients, NoNutrients)
        aminoacids == GetFields(d.aminoacids, NoAminoacids)
    IN  IF nutrients.raised \/ aminoacids.raised
        THEN [raised |-> TRUE, val |-> NoMetrics]
        ELSE [raised |-> FALSE, val |-> MetricsOf(nutrients.val, aminoacids.val)]

----------------------------------------------------------------------------
(* Scorer.detect_amino_spiking *)

\* the rule thresholds written in the code, as exact decimals
GlycineLimit == R(5, 100)

LowEaasLimit == R(40, 100)

BcaasLimit == R(60, 100)

\* faulty variant: the limit of eaas_exceed_protein typed as 0.1
EaasExceedLimitTenth == R(1, 10)

EaasExceedLimit == R(1, 1)

\* faulty variant: the rule is appended whatever its condition
RuleAlways(cond, name) == <<name>>

RuleIf(cond, name) == IF cond THEN <<name>> ELSE <<>>

\* faulty variant: len(result.triggered_rules) > min_rules
SuspectedAbove(rules, min_rules) == Len(rules) > min_rules

\* result.suspected = len(result.triggered_rules) >= min_rules
Suspected(rules, min_rules) == Len(rules) >= min_rules

detect_amino_spiking(m, d, min_rules) ==
    LET aminoacids == GetFields(d.aminoacids, NoAminoacids).val
        glycine_g  == aminoacids.seaas.glycine_g
        has_ratio  == Truthy(glycine_g) /\ Truthy(m.protein_g_per_serving)
        ratio      == IF has_ratio
                      THEN Some(RDiv(Val(glycine_g), Val(m.protein_g_per_serving)))
                      ELSE None
        rules ==
            RuleIf(has_ratio /\ RLt(GlycineLimit, Val(ratio)), "glycine_disproportion")
            \o RuleIf(Truthy(m.eaas_pct) /\ RLt(Val(m.eaas_pct), LowEaasLimit), "low_eaas")
            \o RuleIf(Truthy(m.bcaas_pct_of_eaas) /\ RLt(BcaasLimit, Val(m.bcaas_pct_of_eaas)),
                      "bcaas_dominant")
            \o RuleIf(Truthy(m.eaas_pct_raw) /\ RLt(EaasExceedLimit, Val(m.eaas_pct_raw)),
                      "eaas_exceed_protein")
            \o RuleIf(Truthy(m.taurine_g) /\ Val(m.taurine_g).n > 0, "taurine_present")
    IN  [suspected |-> Suspected(rules, min_rules),
         triggered_rules |-> rules,
         glycine_ratio |-> ratio]

----------------------------------------------------------------------------
(* The loaded scoring specification (self.spec, scorer.py lines 79-85).     *)
(* A mapping that is only looked up by key is a TLA+ function; a mapping    *)
(* that is iterated (a range table, weights, penalty_weights, hard_reject)  *)
(* is the sequence of its items in document order.                          *)

\* dict.get(key, {}) on a mapping whose values are item sequences
DictGet(mapping, key) == IF key \in DOMAIN mapping THEN mapping[key] ELSE <<>>

\* getattr(metrics, metric_name, None)
GetAttr(m, metric_name) == IF metric_name \in DOMAIN m THEN m[metric_name] ELSE None

\* round(x, 4): 4 decimal places
Ndigits == 4

\* one unit of a 4-decimal number, and of a number of the specification
Grid == Pow10(Ndigits)

Scale == Pow10(Ndigits \div 2)

\* round(x, 4) of x counted in 1/Grid^2, to a count of 1/Grid.  When x lies
\* halfway between two 4-decimal numbers, the float that stands for x lies a
\* rounding error above or below the half, and round() follows the float:
\* tie_up says which.
Round4(x, tie_up) ==
    LET q == x \div Grid
        r == x - q * Grid
    IN  IF 2 * r < Grid THEN q
        ELSE IF 2 * r > Grid THEN q + 1
        ELSE IF tie_up THEN q + 1 ELSE q

----------------------------------------------------------------------------
(* Scorer.normalize_value, Scorer.get_penalty_value *)

\* "for range_str, x in ranges.items(): if matches: return x" ... "return 0.0"
RECURSIVE FirstMatch(_, _)
\* faulty variant: a later matching entry overrides an earlier one
LaterMatchOn(hit, ranges, value) ==
    IF hit.raised THEN [raised |-> TRUE, val |-> 0]
    ELSE IF hit.result /\ FirstMatch(Tail(ranges), value).val = 0
         THEN [raised |-> FALSE, val |-> Head(ranges).value]
         ELSE FirstMatch(Tail(ranges), value)

FirstMatchOn(hit, ranges, value) ==
    IF hit.raised THEN [raised |-> TRUE, val |-> 0]
    ELSE IF hit.result THEN [raised |-> FALSE, val |-> Head(ranges).value]
    ELSE FirstMatch(Tail(ranges), value)

\* faulty variant: without a matching entry the lookup gives 1.0
FirstMatchOrFull(ranges, value) ==
    IF ranges = <<>> THEN [raised |-> FALSE, val |-> 100]
    ELSE FirstMatchOn(_value_matches_range(value, Head(ranges).range), ranges, value)

FirstMatch(ranges, value) ==
    IF ranges = <<>> THEN [raised |-> FALSE, val |-> 0]
    ELSE FirstMatchOn(_value_matches_range(value, Head(ranges).range), ranges, value)

normalize_value(sp, metric_name, value) ==
    IF value = None THEN [raised |-> FALSE, val |-> 0]
    ELSE FirstMatch(DictGet(sp.normalization_ranges, metric_name), Val(value))

\* faulty variant: the normalized score is returned as the penalty
NoComplement(score) == score

\* "return 1.0 - score"
Complement(score) == [raised |-> score.raised, val |-> Scale - score.val]

get_penalty_value(sp, metric_name, value) ==
    IF value = None THEN [raised |-> FALSE, val |-> 0]
    ELSE IF DictGet(sp.penalties, metric_name) = <<>> THEN
        IF DictGet(sp.normalization_ranges, metric_name) # <<>>
        THEN Complement(normalize_value(sp, metric_name, value))
        ELSE [raised |-> FALSE, val |-> 0]
    ELSE FirstMatch(DictGet(sp.penalties, metric_name), Val(value))

----------------------------------------------------------------------------
(* Scorer._check_hard_reject *)

NotRejected == [raised |-> FALSE, rejected |-> FALSE, reason |-> None]

Rejected(why) == [raised |-> FALSE, rejected |-> TRUE, reason |-> Some(why)]

\* faulty variant: the reason keeps the token and loses the metric's name
ReasonOfToken(metric_name, threshold) == threshold

\* f"{metric_name} {threshold}"
ReasonOf(metric_name, threshold) == <<metric_name, " ">> \o threshold

\* lines 281-283, with hit = self._value_matches_range(value, threshold)
CheckMetric(entry, hit) ==
    IF hit.raised THEN [raised |-> TRUE, rejected |-> FALSE, reason |-> None]
    ELSE IF hit.result THEN Rejected(ReasonOf(entry.name, entry.threshold))
    ELSE NotRejected

\* faulty variant: "if amino_spiking.suspected", whatever the entry's value
CheckEntryAnyValue(entry, m, spiking) ==
    IF entry.name = "amino_spiking_suspected" THEN
        IF spiking.suspected
        THEN Rejected(<<"amino_spiking_suspected">>) ELSE NotRejected
    ELSE IF entry.name = "added_sugar_present" THEN NotRejected
    ELSE IF GetAttr(m, entry.name) = None THEN NotRejected
    ELSE CheckMetric(entry, _value_matches_range(Val(GetAttr(m, entry.name)), entry.threshold))

\* faulty variant: a metric that is unset is compared as 0
CheckEntryUnsetAsZero(entry, m, spiking) ==
    IF entry.name = "amino_spiking_suspected" THEN
        IF entry.threshold /\ spiking.suspected
        THEN Rejected(<<"amino_spiking_suspected">>) ELSE NotRejected
    ELSE IF entry.name = "added_sugar_present" THEN NotRejected
    ELSE IF GetAttr(m, entry.name) = None
         THEN CheckMetric(entry, _value_matches_range(R(0, 1), entry.threshold))
    ELSE CheckMetric(entry, _value_matches_range(Val(GetAttr(m, entry.name)), entry.threshold))

\* one pass of the loop body, lines 274-283
CheckEntry(entry, m, spiking) ==
    IF entry.name = "amino_spiking_suspected" THEN
        IF entry.threshold /\ spiking.suspected
        THEN Rejected(<<"amino_spiking_suspected">>) ELSE NotRejected
    ELSE IF entry.name = "added_sugar_present" THEN NotRejected
    ELSE IF GetAttr(m, entry.name) = None THEN NotRejected
    ELSE CheckMetric(entry, _value_matches_range(Val(GetAttr(m, entry.name)), entry.threshold))

\* the loop: the first entry that rejects (or raises) returns
RECURSIVE CheckEntries(_, _, _)
CheckRest(checked, entries, m, spiking) ==
    IF checked.raised \/ checked.rejected THEN checked
    ELSE CheckEntries(Tail(entries), m, spiking)

CheckEntries(entries, m, spiking) ==
    IF entries = <<>> THEN NotRejected
    ELSE CheckRest(CheckEntry(Head(entries), m, spiking), entries, m, spiking)

_check_hard_reject(mode_spec, m, spiking) == CheckEntries(mode_spec.hard_reject, m, spiking)

----------------------------------------------------------------------------
(* Label credibility and safety *)

NoEffects == [hard_reject |-> FALSE, penalty |-> None]

\* self.spec.get("label_credibility", {}).get("effects", {}).get(mode, {})
EffectsOf(sp, mode) ==
    IF mode \in DOMAIN sp.label_credibility.effects
    THEN sp.label_credibility.effects[mode] ELSE NoEffects

\* faulty variant: the flat penalty is added once for each flag triggered
PenaltyPerFlag(sp, mode, m) ==
    LET effects == EffectsOf(sp, mode)
        flags_triggered == RuleIf(m.missing_macros, "missing_macros")
                           \o RuleIf(m.sodium_reported_zero, "sodium_reported_zero")
    IN  IF flags_triggered # <<>> /\ effects.penalty # None
        THEN Val(effects.penalty) * Len(flags_triggered) ELSE 0

_apply_label_credibility_penalties(sp, mode, m) ==
    LET effects == EffectsOf(sp, mode)
        flags_triggered == RuleIf(m.missing_macros, "missing_macros")
                           \o RuleIf(m.sodium_reported_zero, "sodium_reported_zero")
    IN  IF flags_triggered # <<>> /\ effects.penalty # None THEN Val(effects.penalty) ELSE 0

\* faulty variant: sodium_reported_zero is not looked at
CredibilityRejectOnMacros(sp, mode, m) ==
    EffectsOf(sp, mode).hard_reject /\ m.missing_macros

_check_credibility_reject(sp, mode, m) ==
    EffectsOf(sp, mode).hard_reject /\ (m.missing_macros \/ m.sodium_reported_zero)

\* self.spec.get("safety_flags", {}).get("enforcement", {}).get(mode, {})
EnforcementOf(sp, mode) ==
    IF mode \in DOMAIN sp.safety_flags.enforcement
    THEN sp.safety_flags.enforcement[mode] ELSE [hard_reject_if_unknown |-> FALSE]

\* faulty variant: "is None" in place of "not metrics.heavy_metals_tested"
SafetyRejectIfAbsent(sp, mode, m) ==
    EnforcementOf(sp, mode).hard_reject_if_unknown /\ m.heavy_metals_tested = None

_check_safety_reject(sp, mode, m) ==
    EnforcementOf(sp, mode).hard_reject_if_unknown /\ ~TruthyBool(m.heavy_metals_tested)

----------------------------------------------------------------------------
(* Scorer.score_mode *)

\* faulty variant: the rejected ModeScore is built without its reason
RejectedScoreNoReason(mode, reason) ==
    [mode |-> mode, total_score |-> 0, hard_rejected |-> TRUE,
     rejection_reason |-> None, component_scores |-> <<>>, penalty_deduction |-> 0]

\* ModeScore(mode=mode, total_score=0.0, hard_rejected=True, rejection_reason=reason)
RejectedScore(mode, reason) ==
    [mode |-> mode, total_score |-> 0, hard_rejected |-> TRUE,
     rejection_reason |-> reason, component_scores |-> <<>>, penalty_deduction |-> 0]

\* the key of a component_scores item: metric_name, or f"penalty_{metric_name}"
Key(prefix, name) == [prefix |-> prefix, name |-> name]

\* component_scores[key] = item: a dict keeps one item per key, in insertion order
DictSet(d, key, item) ==
    IF \E i \in 1..Len(d) : d[i].key = key
    THEN [i \in 1..Len(d) |-> IF d[i].key = key THEN [key |-> key, item |-> item] ELSE d[i]]
    ELSE Append(d, [key |-> key, item |-> item])

NoScores == [raised |-> FALSE, component_scores |-> <<>>, total |-> 0]

\* lines 378-384, with normalized = self.normalize_value(metric_name, value)
AddScore(acc, entry, value, normalized) ==
    IF normalized.raised THEN [acc EXCEPT !.raised = TRUE]
    ELSE [raised |-> FALSE,
          component_scores |->
             DictSet(acc.component_scores, Key("", entry.name),
                     [raw_value |-> value, normalized |-> normalized.val,
                      weight |-> entry.weight,
                      contribution |-> normalized.val * entry.weight]),
          total |-> acc.total + normalized.val * entry.weight]

\* lines 375-384: the loop over weights.items()
RECURSIVE WeightLoop(_, _, _, _)
WeightLoop(sp, weights, m, acc) ==
    IF weights = <<>> \/ acc.raised THEN acc
    ELSE WeightLoop(sp, Tail(weights), m,
            AddScore(acc, Head(weights), GetAttr(m, Head(weights).name),
                     normalize_value(sp, Head(weights).name, GetAttr(m, Head(weights).name))))

\* lines 393-399, with penalty = self.get_penalty_value(metric_name, value)
AddPenalty(acc, entry, value, penalty) ==
    IF penalty.raised THEN [acc EXCEPT !.raised = TRUE]
    ELSE [raised |-> FALSE,
          component_scores |->
             DictSet(acc.component_scores, Key("penalty_", entry.name),
                     [raw_value |-> value, penalty |-> penalty.val,
                      weight |-> entry.weight,
                      deduction |-> penalty.val * entry.weight]),
          total |-> acc.total + penalty.val * entry.weight]

\* lines 390-399: the loop over penalty_weights.items()
RECURSIVE PenaltyLoop(_, _, _, _)
PenaltyLoop(sp, penalty_weights, m, acc) ==
    IF penalty_weights = <<>> \/ acc.raised THEN acc
    ELSE PenaltyLoop(sp, Tail(penalty_weights), m,
            AddPenalty(acc, Head(penalty_weights), GetAttr(m, Head(penalty_weights).name),
                       get_penalty_value(sp, Head(penalty_weights).name,
                                         GetAttr(m, Head(penalty_weights).name))))

\* faulty variant: the credibility penalty is deducted and not itemized
AddCredibilityUnitemized(acc, credibility_penalty) ==
    IF credibility_penalty > 0
    THEN [acc EXCEPT !.total = @ + credibility_penalty * Scale]
    ELSE acc

\* lines 401-410: the label credibility penalty, added to the penalty loop's result
AddCredibility(acc, credibility_penalty) ==
    IF credibility_penalty > 0
    THEN [raised |-> acc.raised,
          component_scores |->
             DictSet(acc.component_scores, Key("penalty_", "label_credibility"),
                     [raw_value |-> Some(R(1, 1)), penalty |-> credibility_penalty,
                      weight |-> Scale, deduction |-> credibility_penalty * Scale]),
          total |-> acc.total + credibility_penalty * Scale]
    ELSE acc

\* faulty variant: final_score = total_score * (1 + total_penalty)
FinalScoreAdded(mode, total_score, total_penalty, component_scores, tie_up) ==
    [mode |-> mode,
     total_score |-> Round4(total_score * (Grid + total_penalty), tie_up),
     hard_rejected |-> FALSE,
     rejection_reason |-> None,
     component_scores |-> component_scores,
     penalty_deduction |-> Round4(total_penalty * Grid, tie_up)]

\* lines 412-420: final_score = total_score * (1 - total_penalty), rounded
FinalScore(mode, total_score, total_penalty, component_scores, tie_up) ==
    [mode |-> mode,
     total_score |-> Round4(total_score * (Grid - total_penalty), tie_up),
     hard_rejected |-> FALSE,
     rejection_reason |-> None,
     component_scores |-> component_scores,
     penalty_deduction |-> Round4(total_penalty * Grid, tie_up)]

Raised(mode) == [raised |-> TRUE, val |-> RejectedScore(mode, None)]

Returned(score) == [raised |-> FALSE, val |-> score]

\* the end of score_mode, with the sums of the two loops
Finish(mode, total_score, penalized, tie_up) ==
    IF penalized.raised THEN Raised(mode)
    ELSE Returned(FinalScore(mode, total_score, penalized.total,
                             penalized.component_scores, tie_up))

\* lines 386-420, with scored = the result of the loop over weights
Penalize(sp, mode, m, scored, tie_up) ==
    IF scored.raised THEN Raised(mode)
    ELSE Finish(mode, scored.total,
                AddCredibility(
                    PenaltyLoop(sp, sp.modes[mode].penalty_weights, m,
                                [raised |-> FALSE,
                                 component_scores |-> scored.component_scores,
                                 total |-> 0]),
                    _apply_label_credibility_penalties(sp, mode, m)),
                tie_up)

\* lines 370-420
Aggregate(sp, mode, m, tie_up) ==
    Penalize(sp, mode, m, WeightLoop(sp, sp.modes[mode].weights, m, NoScores), tie_up)

\* faulty variant: the safety check comes before the label credibility check
CascadeSafetyFirst(sp, mode, m, checked, tie_up) ==
    IF checked.raised THEN Raised(mode)
    ELSE IF checked.rejected THEN Returned(RejectedScore(mode, checked.reason))
    ELSE IF _check_safety_reject(sp, mode, m)
    THEN Returned(RejectedScore(mode, Some(<<"safety_flags_unmet">>)))
    ELSE IF _check_credibility_reject(sp, mode, m)
    THEN Returned(RejectedScore(mode, Some(<<"label_credibility_issues">>)))
    ELSE Aggregate(sp, mode, m, tie_up)

\* lines 343-368, with checked = self._check_hard_reject(mode_spec, metrics, amino_spiking)
Cascade(sp, mode, m, checked, tie_up) ==
    IF checked.raised THEN Raised(mode)
    ELSE IF checked.rejected THEN Returned(RejectedScore(mode, checked.reason))
    ELSE IF _check_credibility_reject(sp, mode, m)
    THEN Returned(RejectedScore(mode, Some(<<"label_credibility_issues">>)))
    ELSE IF _check_safety_reject(sp, mode, m)
    THEN Returned(RejectedScore(mode, Some(<<"safety_flags_unmet">>)))
    ELSE Aggregate(sp, mode, m, tie_up)

score_mode(sp, mode, m, spiking, tie_up) ==
    Cascade(sp, mode, m, _check_hard_reject(sp.modes[mode], m, spiking), tie_up)

----------------------------------------------------------------------------
(* Scoring specifications the Scorer is loaded with.                        *)
(* skills/scoring_spec.yml is configuration, read by Scorer.__init__.       *)
(* SpecDocumented follows the mode descriptions of cli.py (MODE_EXPLANATIONS)*)
(* and generate_explanations.py (SCORING_CONTEXT); SpecVariant changes the  *)
(* order of the hard_reject entries, switches entries off, moves the        *)
(* credibility and safety effects to other modes, and ends the clean block  *)
(* with an entry whose token float() cannot parse.  SpecMalformed has       *)
(* unparseable tokens in its normalization, penalty and hard_reject tables. *)

Range(token, v) == [range |-> token, value |-> v]

W(name, weight) == [name |-> name, weight |-> weight]

HR(name, threshold) == [name |-> name, threshold |-> threshold]

NormalizationRanges ==
    [protein_pct |->
        << Range(<<"<", "6", "5">>, 30), Range(<<"6", "5", "-", "7", "2">>, 60),
           Range(<<"7", "2", "-", "8", "0">>, 80), Range(<<">", "=", "8", "0">>, 100) >>,
     protein_per_100_kcal |->
        << Range(<<"<", "1", "8">>, 0), Range(<<"1", "8", "-", "2", "2">>, 50),
           Range(<<">", "2", "2">>, 100) >>,
     leucine_g_per_serving |->
        << Range(<<"<", "2", ".", "2">>, 20), Range(<<"2", ".", "2", "-", "2", ".", "7">>, 60),
           Range(<<">", "=", "2", ".", "7">>, 100) >>,
     eaas_pct |->
        << Range(<<"<", "0", ".", "4", "0">>, 20),
           Range(<<"0", ".", "4", "0", "-", "0", ".", "4", "5">>, 60),
           Range(<<">", "0", ".", "4", "5">>, 100) >>,
     protein_g_per_serving |->
        << Range(<<"<", "2", "4">>, 50), Range(<<">", "=", "2", "4">>, 100) >>,
     sodium_mg |->
        << Range(<<"<", "=", "1", "0", "0">>, 100),
           Range(<<"1", "0", "0", "-", "2", "5", "0">>, 50),
           Range(<<">", "2", "5", "0">>, 0) >>,
     non_protein_macros_g |->
        << Range(<<"<", "=", "3">>, 100), Range(<<"3", "-", "6">>, 50),
           Range(<<">", "6">>, 0) >>]

Penalties ==
    [sodium_mg |->
        << Range(<<"<", "=", "1", "0", "0">>, 0),
           Range(<<"1", "0", "0", "-", "2", "5", "0">>, 50),
           Range(<<">", "2", "5", "0">>, 100) >>]

SpecDocumented ==
    [normalization_ranges |-> NormalizationRanges,
     penalties |-> Penalties,
     modes |->
        [cut |->
            [weights |-> << W("protein_per_100_kcal", 40), W("leucine_g_per_serving", 30),
                            W("protein_pct", 20), W("eaas_pct", 10) >>,
             penalty_weights |-> << W("sodium_mg", 10), W("non_protein_macros_g", 15) >>,
             hard_reject |-> << HR("protein_per_100_kcal", <<"<", "1", "8">>),
                                HR("leucine_g_per_serving", <<"<", "2", ".", "2">>) >>],
         bulk |->
            [weights |-> << W("protein_pct", 35), W("eaas_pct", 30),
                            W("leucine_g_per_serving", 25), W("protein_g_per_serving", 10) >>,
             penalty_weights |-> << W("sodium_mg", 5), W("non_protein_macros_g", 5) >>,
             hard_reject |-> << >>],
         clean |->
            [weights |-> << W("sodium_mg", 35), W("non_protein_macros_g", 30),
                            W("eaas_pct", 15), W("leucine_g_per_serving", 10),
                            W("protein_pct", 10) >>,
             penalty_weights |-> << >>,
             hard_reject |-> << HR("sodium_mg", <<">", "2", "5", "0">>),
                                HR("added_sugar_present", TRUE),
                                HR("amino_spiking_suspected", TRUE) >>]],
     amino_spiking_detection |-> [trigger |-> [min_rules_required |-> 2]],
     label_credibility |->
        [effects |-> [cut   |-> [hard_reject |-> FALSE, penalty |-> Some(10)],
                      bulk  |-> [hard_reject |-> FALSE, penalty |-> Some(5)],
                      clean |-> [hard_reject |-> TRUE, penalty |-> None]]],
     safety_flags |->
        [enforcement |-> [clean |-> [hard_reject_if_unknown |-> TRUE]]]]

SpecVariant ==
    [normalization_ranges |-> NormalizationRanges,
     penalties |-> Penalties,
     modes |->
        [cut |->
            [weights |-> << W("protein_pct", 50), W("leucine_g_per_serving", 50) >>,
             penalty_weights |-> << W("added_sugar_g", 20), W("sodium_mg", 10) >>,
             hard_reject |-> << HR("amino_spiking_suspected", TRUE),
                                HR("sodium_mg", <<">", "2", "5", "0">>) >>],
         bulk |->
            [weights |-> << W("protein_g_per_serving", 60), W("eaas_pct", 40) >>,
             penalty_weights |-> << W("sodium_mg", 60), W("non_protein_macros_g", 60) >>,
             hard_reject |-> << HR("amino_spiking_suspected", FALSE) >>],
         clean |->
            [weights |-> << W("sodium_mg", 50), W("price_per_kg", 20),
                            W("non_protein_macros_g", 30) >>,
             penalty_weights |-> << W("label_credibility", 10) >>,
             hard_reject |-> << HR("added_sugar_present", TRUE),
                                HR("leucine_g_per_serving", <<"2">>),
                                HR("taurine_g", <<"h", "i", "g", "h">>) >>]],
     amino_spiking_detection |-> [trigger |-> [min_rules_required |-> 3]],
     label_credibility |->
        [effects |-> [cut   |-> [hard_reject |-> TRUE, penalty |-> Some(10)],
                      clean |-> [hard_reject |-> FALSE, penalty |-> Some(25)]]],
     safety_flags |->
        [enforcement |-> [cut  |-> [hard_reject_if_unknown |-> TRUE],
                          bulk |-> [hard_reject_if_unknown |-> TRUE]]]]

\* range tables with tokens float() cannot parse, each placed after a token
\* that some values match
MalformedRanges ==
    [protein_pct |->
        << Range(<<"<", "7", "0">>, 30), Range(<<"7", "5", "-", "8", "x">>, 60),
           Range(<<">", "=", "8", "0">>, 100) >>,
     protein_g_per_serving |->
        << Range(<<"2", "4", "-", "3", "o">>, 50), Range(<<">", "=", "0">>, 100) >>]

MalformedPenalties ==
    [sodium_mg |->
        << Range(<<"<", "=", "1", "0", "0">>, 0),
           Range(<<"1", "o", "o", "-", "2", "5", "0">>, 50),
           Range(<<">", "2", "5", "0">>, 100) >>]

SpecMalformed ==
    [normalization_ranges |-> MalformedRanges,
     penalties |-> MalformedPenalties,
     modes |->
        [cut |->
            [weights |-> << W("protein_g_per_serving", 100) >>,
             penalty_weights |-> << >>,
             hard_reject |-> << HR("sodium_mg", <<">", "2", "5", "0">>),
                                HR("leucine_g_per_serving", <<"<", "2", ".", "2", "g">>) >>],
         bulk |->
            [weights |-> << W("protein_pct", 50), W("protein_g_per_serving", 50) >>,
             penalty_weights |-> << >>,
             hard_reject |-> << >>],
         clean |->
            [weights |-> << W("protein_g_per_serving", 100) >>,
             penalty_weights |-> << W("sodium_mg", 20) >>,
             hard_reject |-> << >>]],
     amino_spiking_detection |-> [trigger |-> [min_rules_required |-> 1]],
     label_credibility |-> [effects |-> [cut |-> [hard_reject |-> FALSE, penalty |-> None]]],
     safety_flags |-> [enforcement |-> [cut |-> [hard_reject_if_unknown |-> FALSE]]]]

Specs == {SpecDocumented, SpecVariant, SpecMalformed}

----------------------------------------------------------------------------
(* Fact records *)

\* sodium_mg_per_serving ranges over 0, 150, ..., 150 * MaxSodiumStep
MaxSodiumStep == 2

Num(k) == Some(R(k, 1))

NutrientBlocks ==
    { Block("dict",
        [serving_size_g |-> ss, protein_g_per_serving |-> pr,
         energy_kcal_per_serving |-> en, carbohydrates_g_per_serving |-> ca,
         total_fat_g_per_serving |-> fa, sodium_mg_per_serving |-> so,
         added_sugar_g_per_serving |-> su, heavy_metals_tested |-> hm]) :
        ss \in {None, Num(30)}, pr \in {None, Num(20), Num(25)},
        en \in {None, Num(125)}, ca \in {None, Num(1), Num(5)},
        fa \in {None, Num(2)},
        so \in {None} \cup {Num(150 * k) : k \in 0..MaxSodiumStep},
        su \in {None, Num(2)}, hm \in {None, Some(FALSE), Some(TRUE)} }

Amino(basis, eaas_g, bcaas_g, leucine_g, glycine_g, taurine_g) ==
    Block("dict",
        [serving_basis |-> basis,
         eaas |-> [total_g |-> eaas_g,
                   bcaas |-> [total_g |-> bcaas_g, leucine_g |-> leucine_g]],
         seaas |-> [glycine_g |-> glycine_g, taurine_g |-> taurine_g]])

AminoBlocks ==
    { Amino(Some("per_serving"), Num(10), Num(5), Num(3), None, None),
      Amino(Some("per_serving"), Num(7), Num(5), Num(2), Num(2), Num(1)),
      Amino(Some("per_100g"), Num(30), Num(15), Num(8), Num(1), None),
      Amino(None, None, None, None, None, None),
      Block("null", NoAminoacids),
      Block("missing", NoAminoacids) }

Records == { [nutrients |-> nb, aminoacids |-> ab] : nb \in NutrientBlocks, ab \in AminoBlocks }

----------------------------------------------------------------------------
(* Scorer.score_brand, one step per call it makes *)

\* the variables of the other operations, and their values while no such
\* operation runs
NotScorer ==
    <<matcher_vars, board_vars, batch_vars, repeat_vars, db_vars, extractor_vars,
      lookup_vars>>

MatcherIdle == probe = None /\ matches = None

BoardIdle == results = None /\ board_mode = None /\ leaderboard = None

BatchIdle == listing = None /\ position = None /\ batch_results = None /\ batch_pc = "idle"

RepeatIdle == previous = None /\ rounding = None

DbIdle == db = None /\ files = None /\ pushed = None /\ pushes = 0

ExtractorIdle == schema = None /\ output = None /\ validated = None /\ extraction = None

LookupIdle == query = None /\ lookup_score = None /\ lookup_penalty = None

Init ==
    /\ MatcherIdle
    /\ BoardIdle
    /\ BatchIdle
    /\ RepeatIdle
    /\ DbIdle
    /\ ExtractorIdle
    /\ LookupIdle
    /\ spec \in Specs
    /\ data \in Records
    /\ pc = "start"
    /\ metrics = None
    /\ amino_spiking = None
    /\ cut_score = None
    /\ bulk_score = None
    /\ clean_score = None

\* the amino-acid block with its quantities rescaled
Rescaled(block, factor) ==
    IF block.kind # "dict" THEN block
    ELSE [block EXCEPT
            !.extracted_fields.eaas.total_g = ApplyNormalization(@, factor),
            !.extracted_fields.eaas.bcaas.total_g = ApplyNormalization(@, factor),
            !.extracted_fields.eaas.bcaas.leucine_g = ApplyNormalization(@, factor),
            !.extracted_fields.seaas.taurine_g = ApplyNormalization(@, factor)]

\* faulty variant: compute_metrics writes the rescaled quantities back into
\* the record it was given
ComputeMetricsInPlace ==
    /\ pc = "start"
    /\ LET r == compute_metrics(data)
       IN  IF r.raised
           THEN pc' = "raised" /\ UNCHANGED <<metrics, data>>
           ELSE /\ pc' = "metrics"
                /\ metrics' = Some(r.val)
                /\ data' = [data EXCEPT !.aminoacids =
                               Rescaled(@, NormalizationFactor(
                                   GetFields(data.aminoacids, NoAminoacids).val.serving_basis,
                                   GetFields(data.nutrients, NoNutrients).val.serving_size_g))]
    /\ UNCHANGED <<spec, amino_spiking, cut_score, bulk_score, clean_score>>
    /\ UNCHANGED NotScorer

\* metrics = self.compute_metrics(data)
ComputeMetrics ==
    /\ pc = "start"
    /\ LET r == compute_metrics(data)
       IN  IF r.raised
           THEN pc' = "raised" /\ UNCHANGED metrics
           ELSE pc' = "metrics" /\ metrics' = Some(r.val)
    /\ UNCHANGED <<spec, data, amino_spiking, cut_score, bulk_score, clean_score>>
    /\ UNCHANGED NotScorer

\* amino_spiking = self.detect_amino_spiking(metrics, data)
DetectAminoSpiking ==
    /\ pc = "metrics"
    /\ amino_spiking' = Some(detect_amino_spiking(Val(metrics), data,
                               spec.amino_spiking_detection.trigger.min_rules_required))
    /\ pc' = "spiking"
    /\ UNCHANGED <<spec, data, metrics, cut_score, bulk_score, clean_score>>
    /\ UNCHANGED NotScorer

Modes == <<"cut", "bulk", "clean">>

\* where score_brand stands before and after the call for the k-th mode
Before(k) == IF k = 1 THEN "spiking" ELSE Modes[k - 1]

After(k) == IF k = Len(Modes) THEN "done" ELSE Modes[k]

\* the assignment "<mode>_score = ..." unless the call raised
Assign(k, r) ==
    /\ pc' = IF r.raised THEN "raised" ELSE After(k)
    /\ cut_score' = IF Modes[k] = "cut" /\ ~r.raised THEN Some(r.val) ELSE cut_score
    /\ bulk_score' = IF Modes[k] = "bulk" /\ ~r.raised THEN Some(r.val) ELSE bulk_score
    /\ clean_score' = IF Modes[k] = "clean" /\ ~r.raised THEN Some(r.val) ELSE clean_score

\* lines 433-435: <mode>_score = self.score_mode(<mode>, metrics, amino_spiking)
ScoreMode(k, tie_up) ==
    /\ pc = Before(k)
    /\ Assign(k, score_mode(spec, Modes[k], Val(metrics), Val(amino_spiking), tie_up))
    /\ UNCHANGED <<spec, data, metrics, amino_spiking>>
    /\ UNCHANGED NotScorer

Next == ComputeMetrics \/ DetectAminoSpiking \/ \E k \in 1..Len(Modes), tie_up \in BOOLEAN : ScoreMode(k, tie_up)

Spec == Init /\ [][Next]_vars

----------------------------------------------------------------------------
(* compute_metrics and detect_amino_spiking on records that vary the        *)
(* amino-acid block and the serving size                                    *)

AminoRecords ==
    { [nutrients |-> Block("dict",
          [serving_size_g |-> ss, protein_g_per_serving |-> pr,
           energy_kcal_per_serving |-> Num(125), carbohydrates_g_per_serving |-> Num(1),
           total_fat_g_per_serving |-> Num(2), sodium_mg_per_serving |-> Num(0),
           added_sugar_g_per_serving |-> None, heavy_metals_tested |-> Some(TRUE)]),
       aminoacids |-> Amino(basis, eaas_g, bcaas_g, leucine_g, glycine_g, taurine_g)] :
        ss \in {None, Num(30), Num(50)}, pr \in {None, Num(20)},
        basis \in {None, Some("per_serving"), Some("per_100g")},
        eaas_g \in {None, Num(7), Num(14), Num(30)},
        bcaas_g \in {None, Num(3), Some(R(91, 20))},
        leucine_g \in {None, Num(2)}, glycine_g \in {None, Num(2)},
        taurine_g \in {None, Num(0), Num(1)} }

MetricsInit ==
    /\ MatcherIdle
    /\ BoardIdle
    /\ BatchIdle
    /\ RepeatIdle
    /\ DbIdle
    /\ ExtractorIdle
    /\ LookupIdle
    /\ spec \in Specs
    /\ data \in AminoRecords
    /\ pc = "start"
    /\ metrics = None
    /\ amino_spiking = None
    /\ cut_score = None
    /\ bulk_score = None
    /\ clean_score = None

MetricsNext == ComputeMetrics \/ DetectAminoSpiking

MetricsSpec == MetricsInit /\ [][MetricsNext]_vars

----------------------------------------------------------------------------
(* compute_metrics and detect_amino_spiking on records whose quantities     *)
(* can be absent, zero or positive                                          *)

RatioRecords ==
    { [nutrients |-> Block("dict",
          [serving_size_g |-> ss, protein_g_per_serving |-> pr,
           energy_kcal_per_serving |-> en, carbohydrates_g_per_serving |-> Num(1),
           total_fat_g_per_serving |-> Num(2), sodium_mg_per_serving |-> Num(0),
           added_sugar_g_per_serving |-> None, heavy_metals_tested |-> Some(TRUE)]),
       aminoacids |-> Amino(basis, eaas_g, bcaas_g, Num(2), None, None)] :
        ss \in {None, Num(30)}, pr \in {None, Num(0), Num(20)},
        en \in {None, Num(125)}, basis \in {None, Some("per_serving")},
        eaas_g \in {None, Num(0), Num(7), Num(30)},
        bcaas_g \in {None, Num(0), Num(3)} }

RatioInit ==
    /\ MatcherIdle
    /\ BoardIdle
    /\ BatchIdle
    /\ RepeatIdle
    /\ DbIdle
    /\ ExtractorIdle
    /\ LookupIdle
    /\ spec \in Specs
    /\ data \in RatioRecords
    /\ pc = "start"
    /\ metrics = None
    /\ amino_spiking = None
    /\ cut_score = None
    /\ bulk_score = None
    /\ clean_score = None

RatioSpec == RatioInit /\ [][MetricsNext]_vars

----------------------------------------------------------------------------
(* score_brand called twice on the same record by the same Scorer *)

RepeatRecords ==
    { r \in Records :
        LET f == r.nutrients.extracted_fields
        IN  /\ f.protein_g_per_serving # None
            /\ f.energy_kcal_per_serving # None
            /\ f.carbohydrates_g_per_serving # None
            /\ f.total_fat_g_per_serving # None
            /\ f.added_sugar_g_per_serving = None
            /\ f.heavy_metals_tested = Some(TRUE) }

\* what a call of score_brand gave: its result, or that it raised
Outcome ==
    [raised |-> pc = "raised", metrics |-> metrics, amino_spiking |-> amino_spiking,
     cut_score |-> cut_score, bulk_score |-> bulk_score, clean_score |-> clean_score]

RepeatInit ==
    /\ MatcherIdle
    /\ BoardIdle
    /\ BatchIdle
    /\ DbIdle
    /\ ExtractorIdle
    /\ LookupIdle
    /\ spec \in Specs
    /\ data \in RepeatRecords
    /\ rounding \in [1..Len(Modes) -> BOOLEAN]
    /\ previous = None
    /\ pc = "start"
    /\ metrics = None
    /\ amino_spiking = None
    /\ cut_score = None
    /\ bulk_score = None
    /\ clean_score = None

\* the first call is over; score_brand is called again with the same data
CallAgain ==
    /\ pc \in {"done", "raised"}
    /\ previous = None
    /\ previous' = Some(Outcome)
    /\ pc' = "start"
    /\ metrics' = None
    /\ amino_spiking' = None
    /\ cut_score' = None
    /\ bulk_score' = None
    /\ clean_score' = None
    /\ UNCHANGED <<spec, data, rounding>>
    /\ UNCHANGED <<matcher_vars, board_vars, batch_vars, db_vars, extractor_vars, lookup_vars>>

RepeatNext ==
    \/ ComputeMetrics
    \/ DetectAminoSpiking
    \/ \E k \in 1..Len(Modes) : ScoreMode(k, rounding[k])
    \/ CallAgain

RepeatSpec == RepeatInit /\ [][RepeatNext]_vars

----------------------------------------------------------------------------
(* Scorer._value_matches_range, called on its own *)

\* a decimal literal as it is written in a token, with the number it denotes
Lit(text, num) == [text |-> text, num |-> num]

Literals ==
    { Lit(<<"6", "5">>, R(65, 1)), Lit(<<"7", "2">>, R(72, 1)), Lit(<<"8", "0">>, R(80, 1)),
      Lit(<<"0", ".", "4", "5">>, R(45, 100)), Lit(<<"-", "5">>, R(-5, 1)) }

OpText(op) ==
    CASE op = ">=" -> <<">", "=">> [] op = ">" -> <<">">>
      [] op = "<=" -> <<"<", "=">> [] op = "<" -> <<"<">>

\* a token with the form it was written in and the numbers written in it
Token(form, text, low, high) == [form |-> form, text |-> text, low |-> low, high |-> high]

Percent == {<<>>, <<"%">>}

Blank == {<<>>, <<" ">>}

MatcherTokens ==
    { Token(op, OpText(op) \o pad \o x.text \o pct, x.num, x.num) :
        op \in {">=", ">", "<=", "<"}, x \in Literals, pct \in Percent, pad \in Blank }
    \cup { Token("==", x.text \o pct, x.num, x.num) : x \in Literals, pct \in Percent }
    \cup { Token("-", a.text \o pct \o pad \o <<"-">> \o pad \o b.text \o pct, a.num, b.num) :
        a \in {x \in Literals : x.num.n >= 0}, b \in {x \in Literals : x.num.n >= 0},
        pct \in Percent, pad \in Blank }

MatcherValues ==
    { R(649, 10), R(65, 1), R(70, 1), R(72, 1), R(7999, 100), R(80, 1), R(45, 100),
      R(-5, 1), R(100, 1) }

\* the variables of the other operations
NotMatcher ==
    <<scorer_vars, board_vars, batch_vars, repeat_vars, db_vars, extractor_vars,
      lookup_vars>>

ScorerIdle ==
    /\ spec = None /\ data = None /\ pc = "idle" /\ metrics = None /\ amino_spiking = None
    /\ cut_score = None /\ bulk_score = None /\ clean_score = None

MatcherInit ==
    /\ ScorerIdle
    /\ BoardIdle
    /\ BatchIdle
    /\ RepeatIdle
    /\ DbIdle
    /\ ExtractorIdle
    /\ LookupIdle
    /\ probe \in [value : MatcherValues, token : MatcherTokens]
    /\ matches = None

\* matches = self._value_matches_range(value, range_str)
Match ==
    /\ matches = None
    /\ matches' = Some(_value_matches_range(probe.value, probe.token.text))
    /\ UNCHANGED probe
    /\ UNCHANGED NotMatcher

MatcherNext == Match

MatcherSpec == MatcherInit /\ [][MatcherNext]_vars

----------------------------------------------------------------------------
(* normalize_value and get_penalty_value on tables whose entries overlap    *)
(* and leave gaps                                                           *)

GappedRanges ==
    [protein_pct |->
        << Range(<<"6", "5", "-", "7", "2">>, 60), Range(<<"7", "0", "-", "8", "0">>, 80),
           Range(<<">", "=", "8", "0">>, 100) >>,
     sodium_mg |-> << Range(<<"<", "=", "1", "0", "0">>, 100) >>,
     non_protein_macros_g |->
        << Range(<<"3", "-", "6">>, 50), Range(<<">", "6">>, 0) >>]

GappedPenalties ==
    [sodium_mg |->
        << Range(<<"1", "0", "0", "-", "2", "5", "0">>, 50),
           Range(<<">", "=", "2", "0", "0">>, 100) >>]

LookupTables ==
    { [normalization_ranges |-> NormalizationRanges, penalties |-> Penalties],
      [normalization_ranges |-> GappedRanges, penalties |-> GappedPenalties] }

LookupMetrics == {"protein_pct", "sodium_mg", "non_protein_macros_g", "unlisted"}

LookupValues == {None} \cup {Num(k) : k \in {0, 3, 50, 64, 70, 72, 80, 100, 200, 250, 300}}

LookupInit ==
    /\ ScorerIdle
    /\ MatcherIdle
    /\ BoardIdle
    /\ BatchIdle
    /\ RepeatIdle
    /\ DbIdle
    /\ ExtractorIdle
    /\ query \in [tables : LookupTables, metric_name : LookupMetrics, value : LookupValues]
    /\ lookup_score = None
    /\ lookup_penalty = None

\* normalized = self.normalize_value(metric_name, value)
NormalizeValue ==
    /\ lookup_score = None
    /\ lookup_score' = Some(normalize_value(query.tables, query.metric_name, query.value))
    /\ UNCHANGED <<query, lookup_penalty>>
    /\ UNCHANGED <<scorer_vars, matcher_vars, board_vars, batch_vars, repeat_vars, db_vars, extractor_vars>>

\* penalty = self.get_penalty_value(metric_name, value)
GetPenaltyValue ==
    /\ lookup_penalty = None
    /\ lookup_penalty' = Some(get_penalty_value(query.tables, query.metric_name, query.value))
    /\ UNCHANGED <<query, lookup_score>>
    /\ UNCHANGED <<scorer_vars, matcher_vars, board_vars, batch_vars, repeat_vars, db_vars, extractor_vars>>

LookupNext == NormalizeValue \/ GetPenaltyValue

LookupSpec == LookupInit /\ [][LookupNext]_vars

----------------------------------------------------------------------------
(* get_leaderboard *)

\* getattr(scores, f"{mode}_score")
ModeScoreOf(scores, mode) ==
    CASE mode = "cut" -> scores.cut_score
      [] mode = "bulk" -> scores.bulk_score
      [] mode = "clean" -> scores.clean_score

\* lines 473-480: one tuple (brand, total_score, hard_rejected) per result
\* that has a score for the mode, in the order of the results
RECURSIVE Collect(_, _)
Collect(scored, mode) ==
    IF scored = <<>> THEN <<>>
    ELSE (IF ModeScoreOf(Head(scored), mode) # None
          THEN << <<Head(scored).brand,
                    Val(ModeScoreOf(Head(scored), mode)).total_score,
                    Val(ModeScoreOf(Head(scored), mode)).hard_rejected>> >>
          ELSE <<>>)
         \o Collect(Tail(scored), mode)

\* faulty variant: key=lambda x: x[1]
SortKeyScoreOnly(x) == <<TRUE, x[2]>>

\* key=lambda x: (not x[2], x[1]), the tuple counted from 0 in the code
SortKey(x) == <<~x[3], x[2]>>

\* key a < key b as Python compares tuples, with False < True
KeyLess(a, b) == (~a[1] /\ b[1]) \/ (a[1] = b[1] /\ a[2] < b[2])

\* faulty variant: sorted ascending and then reversed, x also passes the
\* elements of equal key
InsertBeforeEqual(sorted, x) ==
    LET before == {i \in 1..Len(sorted) : KeyLess(SortKey(x), SortKey(sorted[i]))}
    IN  SubSeq(sorted, 1, Cardinality(before)) \o <<x>>
        \o SubSeq(sorted, Cardinality(before) + 1, Len(sorted))

\* list.sort(key, reverse=True) is stable: x goes after every element whose
\* key is not less than its own, the elements of equal key included
Insert(sorted, x) ==
    LET before == {i \in 1..Len(sorted) : ~KeyLess(SortKey(sorted[i]), SortKey(x))}
    IN  SubSeq(sorted, 1, Cardinality(before)) \o <<x>>
        \o SubSeq(sorted, Cardinality(before) + 1, Len(sorted))

RECURSIVE SortDescending(_, _)
SortDescending(sorted, rest) ==
    IF rest = <<>> THEN sorted
    ELSE SortDescending(Insert(sorted, Head(rest)), Tail(rest))

get_leaderboard(scored, mode) == SortDescending(<<>>, Collect(scored, mode))

\* the results handed to get_leaderboard: at most MaxResults of them
MaxResults == 3

BrandNames == <<"b1", "b2", "b3", "b4", "b5">>

AnyScore(total_score, hard_rejected) ==
    Some([total_score |-> total_score, hard_rejected |-> hard_rejected])

CutScores ==
    {None, AnyScore(8000, FALSE), AnyScore(5000, FALSE), AnyScore(0, TRUE), AnyScore(9000, TRUE)}

BulkScores == {None, AnyScore(5000, FALSE)}

ResultLists ==
    UNION { { [i \in 1..n |-> [brand |-> BrandNames[i], cut_score |-> c[i],
                               bulk_score |-> b[i], clean_score |-> None]] :
                c \in [1..n -> CutScores], b \in [1..n -> BulkScores] } :
            n \in 0..MaxResults }

\* the variables of the other operations
NotBoard ==
    <<scorer_vars, matcher_vars, batch_vars, repeat_vars, db_vars, extractor_vars,
      lookup_vars>>

BoardInit ==
    /\ ScorerIdle
    /\ MatcherIdle
    /\ BatchIdle
    /\ RepeatIdle
    /\ DbIdle
    /\ ExtractorIdle
    /\ LookupIdle
    /\ results \in ResultLists
    /\ board_mode \in {"cut", "bulk", "clean"}
    /\ leaderboard = None

\* leaderboard = get_leaderboard(results, mode)
GetLeaderboard ==
    /\ leaderboard = None
    /\ leaderboard' = Some(get_leaderboard(results, board_mode))
    /\ UNCHANGED <<results, board_mode>>
    /\ UNCHANGED NotBoard

BoardNext == GetLeaderboard

BoardSpec == BoardInit /\ [][BoardNext]_vars

----------------------------------------------------------------------------
(* score_all_brands *)

\* brand_dir.name.startswith(".")
StartsWithDot(name) == Len(name) > 0 /\ name[1] = "."

\* line 457: the entries the loop passes over
Skipped(entry) == ~entry.is_dir \/ StartsWithDot(entry.name)

\* the default of data.get("brand", "unknown")
Unknown == <<"u", "n", "k", "n", "o", "w", "n">>

\* BrandScores(brand=data.get("brand", "unknown"), ...)
BrandScores ==
    [brand |-> IF data.brand = None THEN Unknown ELSE Val(data.brand),
     metrics |-> Val(metrics), amino_spiking |-> Val(amino_spiking),
     cut_score |-> cut_score, bulk_score |-> bulk_score, clean_score |-> clean_score]

\* the entries of output_dir: at most MaxListing of them
MaxListing == 3

EntryNames == << <<"d", "1">>, <<"d", "2">>, <<"d", "3">>, <<"d", "4">> >>

FactsOfBrand(brand, protein_g, aminoacids) ==
    [brand |-> brand,
     nutrients |-> Block("dict",
        [serving_size_g |-> Num(30), protein_g_per_serving |-> Num(protein_g),
         energy_kcal_per_serving |-> Num(125), carbohydrates_g_per_serving |-> Num(1),
         total_fat_g_per_serving |-> Num(2), sodium_mg_per_serving |-> Num(0),
         added_sugar_g_per_serving |-> None, heavy_metals_tested |-> Some(TRUE)]),
     aminoacids |-> aminoacids]

\* what an entry with the i-th name can be: a plain file, a hidden directory,
\* a directory without its JSON file, and a directory whose JSON file holds
\* a named record, a record without "brand", or a record with a null
\* amino-acid block
EntriesNamed(i) ==
    { [name |-> EntryNames[i], is_dir |-> FALSE, json |-> None],
      [name |-> <<".">> \o EntryNames[i], is_dir |-> TRUE,
       json |-> Some(FactsOfBrand(Some(EntryNames[i]), 25, Block("missing", NoAminoacids)))],
      [name |-> EntryNames[i], is_dir |-> TRUE, json |-> None],
      [name |-> EntryNames[i], is_dir |-> TRUE,
       json |-> Some(FactsOfBrand(Some(EntryNames[i]), 25,
                     Amino(Some("per_serving"), Num(10), Num(5), Num(3), None, None)))],
      [name |-> EntryNames[i], is_dir |-> TRUE,
       json |-> Some(FactsOfBrand(None, 20, Block("missing", NoAminoacids)))],
      [name |-> EntryNames[i], is_dir |-> TRUE,
       json |-> Some(FactsOfBrand(Some(EntryNames[i]), 20, Block("null", NoAminoacids)))] }

Listings ==
    UNION { { l \in [1..n -> UNION {EntriesNamed(i) : i \in 1..n}] :
                \A i \in 1..n : l[i] \in EntriesNamed(i) } : n \in 0..MaxListing }

\* the variables of the other operations
NotBatch ==
    <<matcher_vars, board_vars, repeat_vars, db_vars, extractor_vars,
      lookup_vars>>

\* scorer = Scorer(); results = []
BatchInit ==
    /\ MatcherIdle
    /\ BoardIdle
    /\ RepeatIdle
    /\ DbIdle
    /\ ExtractorIdle
    /\ LookupIdle
    /\ spec = SpecDocumented
    /\ data = None /\ pc = "idle" /\ metrics = None /\ amino_spiking = None
    /\ cut_score = None /\ bulk_score = None /\ clean_score = None
    /\ listing \in Listings
    /\ position = 1
    /\ batch_results = <<>>
    /\ batch_pc = "loop"

\* lines 456-462: the loop takes the next entry; it passes over it, or loads
\* its JSON file and calls score_brand
Visit ==
    /\ batch_pc = "loop"
    /\ position <= Len(listing)
    /\ IF Skipped(listing[position]) \/ listing[position].json = None
       THEN /\ position' = position + 1
            /\ UNCHANGED <<batch_pc, data, pc>>
       ELSE /\ data' = Val(listing[position].json)
            /\ pc' = "start"
            /\ batch_pc' = "scoring"
            /\ UNCHANGED position
    /\ UNCHANGED <<spec, metrics, amino_spiking, cut_score, bulk_score, clean_score>>
    /\ UNCHANGED <<listing, batch_results>>
    /\ UNCHANGED NotBatch

\* faulty variant: results.insert(0, scores)
Prepend(scores_list, scores) == <<scores>> \o scores_list

\* results.append(scores)
ListAppend(scores_list, scores) == Append(scores_list, scores)

\* lines 437-444 and 463: score_brand returns and its result is appended
AppendScores ==
    /\ batch_pc = "scoring"
    /\ pc = "done"
    /\ batch_results' = ListAppend(batch_results, BrandScores)
    /\ position' = position + 1
    /\ batch_pc' = "loop"
    /\ data' = None /\ pc' = "idle" /\ metrics' = None /\ amino_spiking' = None
    /\ cut_score' = None /\ bulk_score' = None /\ clean_score' = None
    /\ UNCHANGED <<spec, listing>>
    /\ UNCHANGED NotBatch

\* an exception of score_brand leaves score_all_brands
Propagate ==
    /\ batch_pc = "scoring"
    /\ pc = "raised"
    /\ batch_pc' = "raised"
    /\ UNCHANGED <<scorer_vars, listing, position, batch_results>>
    /\ UNCHANGED NotBatch

\* return results
Return ==
    /\ batch_pc = "loop"
    /\ position > Len(listing)
    /\ batch_pc' = "returned"
    /\ UNCHANGED <<scorer_vars, listing, position, batch_results>>
    /\ UNCHANGED NotBatch

BatchNext == Visit \/ AppendScores \/ Propagate \/ Return \/ Next

BatchSpec == BatchInit /\ [][BatchNext]_vars

----------------------------------------------------------------------------
(* db_builder.push_brand.  A table is the set of its rows; of the columns   *)
(* of a row those are kept that tell one brand's data from another's.       *)

EmptyDb == [brands |-> {}, nutrients |-> {}, aminoacids |-> {}, scores |-> {}, explanations |-> {}]

\* supabase.table("brands").select("id").eq("name", brand_name): the id of
\* the first row found, None without one
brand_exists(d, brand_name) ==
    IF \E row \in d.brands : row.name = brand_name
    THEN Some((CHOOSE row \in d.brands : row.name = brand_name).id)
    ELSE None

\* the id a new row of brands gets
NextId(d) == 1 + Cardinality(d.brands)

BrandRow(brand_id, fields) ==
    [id |-> brand_id, name |-> Val(fields.brand), extraction_timestamp |-> fields.extraction_timestamp]

\* insert_brand, lines 65-77, given what the select by data.get("brand") found
UpsertBrand(d, fields, existing) ==
    IF existing # None
    THEN [brand_id |-> Val(existing),
          db |-> [d EXCEPT !.brands = {row \in @ : row.id # Val(existing)}
                                        \cup {BrandRow(Val(existing), fields)}]]
    ELSE [brand_id |-> NextId(d),
          db |-> [d EXCEPT !.brands = @ \cup {BrandRow(NextId(d), fields)}]]

insert_brand(d, fields) == UpsertBrand(d, fields, brand_exists(d, Val(fields.brand)))

\* table.delete().eq("brand_id", brand_id) and then table.insert(row)
Replace(rows, brand_id, row) == {r \in rows : r.brand_id # brand_id} \cup {row}

\* "if not nutrients: return" passes over a missing or null block
insert_nutrients(d, brand_id, fields) ==
    IF fields.nutrients.kind # "dict" THEN d
    ELSE [d EXCEPT !.nutrients =
            Replace(@, brand_id,
                    [brand_id |-> brand_id,
                     protein_g |-> fields.nutrients.extracted_fields.protein_g_per_serving])]

insert_aminoacids(d, brand_id, fields) ==
    IF fields.aminoacids.kind # "dict" THEN d
    ELSE [d EXCEPT !.aminoacids =
            Replace(@, brand_id,
                    [brand_id |-> brand_id,
                     leucine_g |-> fields.aminoacids.extracted_fields.eaas.bcaas.leucine_g])]

insert_scores(d, brand_id, scores) ==
    [d EXCEPT !.scores =
        Replace(@, brand_id,
                [brand_id |-> brand_id,
                 protein_pct |-> scores.metrics.protein_pct,
                 amino_spiking_suspected |-> scores.amino_spiking.suspected,
                 cut_score |-> scores.cut_score.total_score,
                 cut_rejected |-> scores.cut_score.hard_rejected])]

\* for each mode of the mapping: delete the brand's row of the mode, insert
\* the new one; "if explanations:" passes over a missing or empty mapping
insert_explanations(d, brand_id, explanations) ==
    IF explanations = None THEN d
    ELSE [d EXCEPT !.explanations =
            {r \in @ : ~(r.brand_id = brand_id /\ r.mode \in DOMAIN Val(explanations))}
            \cup {[brand_id |-> brand_id, mode |-> mode, explanation |-> Val(explanations)[mode]] :
                    mode \in DOMAIN Val(explanations)}]

\* scorer.score_brand(data) with the shipped specification, the cut mode of it
ScoresGiven(m, spiking, cut) ==
    [raised |-> cut.raised,
     val |-> [metrics |-> m, amino_spiking |-> spiking, cut_score |-> cut.val]]

ScoresFrom(m, spiking, tie_up) ==
    ScoresGiven(m, spiking, score_mode(SpecDocumented, "cut", m, spiking, tie_up))

ScoresOfMetrics(fields, r, tie_up) ==
    IF r.raised THEN [raised |-> TRUE, val |-> None]
    ELSE ScoresFrom(r.val,
                    detect_amino_spiking(r.val, fields,
                        SpecDocumented.amino_spiking_detection.trigger.min_rules_required),
                    tie_up)

ScoresOf(fields, tie_up) == ScoresOfMetrics(fields, compute_metrics(fields), tie_up)

\* what push_brand gives: (success, message) and the tables, or an exception
PushOutcome(success, raised, d) == [success |-> success, raised |-> raised, db |-> d]

\* lines 242-256: the writes of push_brand, in the order of the code
WriteRest(inserted, fields, scores) ==
    insert_explanations(
        insert_scores(
            insert_aminoacids(
                insert_nutrients(inserted.db, inserted.brand_id, fields),
                inserted.brand_id, fields),
            inserted.brand_id, scores),
        inserted.brand_id, fields.explanations)

WriteAll(d, fields, scores) ==
    IF scores.raised THEN PushOutcome(FALSE, TRUE, d)
    ELSE PushOutcome(TRUE, FALSE, WriteRest(insert_brand(d, fields), fields, scores.val))

\* push_brand(brand_name, force); load_brand_json(brand_name) is fs[brand_name]
push_brand(d, fs, brand_name, force, tie_up) ==
    IF brand_exists(d, brand_name) # None /\ ~force THEN PushOutcome(FALSE, FALSE, d)
    ELSE IF fs[brand_name] = None THEN PushOutcome(FALSE, FALSE, d)
         ELSE WriteAll(d, Val(fs[brand_name]), ScoresOf(Val(fs[brand_name]), tie_up))

\* the brand directories of the output directory, and the brands named in
\* their JSON files
BrandDirs == {"acme", "bolt"}

Explained(text) == Some([cut |-> text, bulk |-> text])

BrandFacts(brand, stamp, protein_g, nutrients_kind, aminoacids, explanations) ==
    [brand |-> Some(brand), extraction_timestamp |-> stamp,
     nutrients |-> Block(nutrients_kind,
        [serving_size_g |-> Num(30), protein_g_per_serving |-> Num(protein_g),
         energy_kcal_per_serving |-> Num(125), carbohydrates_g_per_serving |-> Num(1),
         total_fat_g_per_serving |-> Num(2), sodium_mg_per_serving |-> Num(150),
         added_sugar_g_per_serving |-> None, heavy_metals_tested |-> Some(TRUE)]),
     aminoacids |-> aminoacids,
     explanations |-> explanations]

\* the file an earlier extraction of the brand wrote
OldFacts(brand) ==
    BrandFacts(brand, 1, 20, "dict",
               Amino(Some("per_serving"), Num(10), Num(5), Num(2), None, None), Explained("old"))

\* what <dir>/<dir>.json can be: absent, or written by a later extraction of
\* the same brand, or a file naming another brand, or one without a nutrient
\* block, or one with a null amino-acid block
FilesOf(dir) ==
    {None}
    \cup {Some(BrandFacts(brand, 2, 25, "dict",
                          Amino(Some("per_serving"), Num(10), Num(5), Num(3), None, None),
                          Explained("new"))) : brand \in BrandDirs}
    \cup {Some(BrandFacts(dir, 2, 25, "missing", Block("missing", NoAminoacids), None)),
          Some(BrandFacts(dir, 2, 25, "dict", Block("null", NoAminoacids), None))}

\* the tables after the old files of these brands were pushed, one by one
RECURSIVE PushedOld(_)
PushedOld(brands) ==
    IF brands = <<>> THEN EmptyDb
    ELSE WriteAll(PushedOld(Tail(brands)), OldFacts(Head(brands)),
                  ScoresOf(OldFacts(Head(brands)), TRUE)).db

\* the calls of push_brand: at most MaxPushes
MaxPushes == 2

DbInit ==
    /\ ScorerIdle
    /\ MatcherIdle
    /\ BoardIdle
    /\ BatchIdle
    /\ RepeatIdle
    /\ ExtractorIdle
    /\ LookupIdle
    /\ db \in {PushedOld(brands) : brands \in {<<>>, <<"acme">>, <<"bolt">>, <<"acme", "bolt">>}}
    /\ files \in {fs \in [BrandDirs -> UNION {FilesOf(dir) : dir \in BrandDirs}] :
                    \A dir \in BrandDirs : fs[dir] \in FilesOf(dir)}
    /\ pushed = None
    /\ pushes = 0

\* the tables and the result of a call
Publish(brand_name, force, outcome) ==
    /\ db' = outcome.db
    /\ pushed' = Some([brand_name |-> brand_name, force |-> force,
                       success |-> outcome.success, raised |-> outcome.raised])

PushBrand(brand_name, force, tie_up) ==
    /\ pushes < MaxPushes
    /\ pushes' = pushes + 1
    /\ Publish(brand_name, force, push_brand(db, files, brand_name, force, tie_up))
    /\ UNCHANGED files
    /\ UNCHANGED <<scorer_vars, matcher_vars, board_vars, batch_vars, repeat_vars, extractor_vars, lookup_vars>>

DbNext == \E brand_name \in BrandDirs, force \in BOOLEAN, tie_up \in BOOLEAN : PushBrand(brand_name, force, tie_up)

DbSpec == DbInit /\ [][DbNext]_vars

----------------------------------------------------------------------------
(* BaseExtractor.validate_output and BaseExtractor.extract.  A JSON value   *)
(* is kept by its type, a string of an enumeration by its text.             *)

\* the keywords of a schema that the extraction schemas use: the type of the
\* document, the required top-level keys, the required keys and the number
\* type inside extracted_fields, and the enumeration of serving_basis; a
\* schema that is not well formed has a keyword of the wrong shape
Schema(well_formed, of_type, required, fields_required, basis_enum) ==
    [well_formed |-> well_formed, type |-> of_type, required |-> required,
     fields_required |-> fields_required, basis_enum |-> basis_enum]

Schemas ==
    { Schema(TRUE, Some("object"), <<"product_id", "extracted_fields">>,
             <<"serving_size_g">>, Some({"per_serving", "per_100g"})),
      Schema(TRUE, Some("object"), <<"extracted_fields">>, <<>>, Some({"per_serving", "per_100g"})),
      Schema(TRUE, None, <<"product_id">>, <<>>, None),
      Schema(FALSE, Some("object"), <<"product_id", "extracted_fields">>, <<>>, None) }

\* the parsed response: an array, or an object with these keys
Document(kind, product_id, extracted_fields, serving_size_g, serving_basis) ==
    [kind |-> kind, product_id |-> product_id, extracted_fields |-> extracted_fields,
     serving_size_g |-> serving_size_g, serving_basis |-> serving_basis]

Outputs ==
    { Document("array", "missing", "missing", "missing", "missing") }
    \cup { Document("object", product_id, "missing", "missing", "missing") :
             product_id \in {"missing", "string", "number"} }
    \cup { Document("object", product_id, "array", "missing", "missing") :
             product_id \in {"missing", "string", "number"} }
    \cup { Document("object", product_id, "object", serving_size_g, serving_basis) :
             product_id \in {"missing", "string", "number"},
             serving_size_g \in {"missing", "number", "string"},
             serving_basis \in {"missing", "per_serving", "per_100g", "invalid"} }

\* the value of a top-level key of an object, "missing" without it
ValueOf(doc, key) == IF key = "product_id" THEN doc.product_id ELSE doc.extracted_fields

ErrorIf(cond, message) == IF cond THEN <<message>> ELSE <<>>

RECURSIVE MissingKeys(_, _)
MissingKeys(doc, required) ==
    IF required = <<>> THEN <<>>
    ELSE ErrorIf(ValueOf(doc, Head(required)) = "missing", <<Head(required), "is a required property">>)
         \o MissingKeys(doc, Tail(required))

\* the errors inside extracted_fields; the keywords for an object say
\* nothing about a value that is not one
FieldErrors(doc, sch) ==
    IF doc.extracted_fields # "object" THEN
        ErrorIf(doc.extracted_fields = "array", <<"extracted_fields", "is not of type object">>)
    ELSE ErrorIf(doc.serving_size_g = "missing" /\ Len(sch.fields_required) > 0,
                 <<"serving_size_g", "is a required property">>)
         \o ErrorIf(doc.serving_size_g = "string", <<"serving_size_g", "is not of type number">>)
         \o ErrorIf(sch.basis_enum # None /\ doc.serving_basis # "missing"
                        /\ doc.serving_basis \notin Val(sch.basis_enum),
                    <<"serving_basis", "is not one of the enumeration">>)

\* the errors jsonschema finds in the document
SchemaErrors(doc, sch) ==
    IF doc.kind # "object"
    THEN ErrorIf(sch.type = Some("object"), <<"document", "is not of type object">>)
    ELSE ErrorIf(doc.product_id = "number", <<"product_id", "is not of type string">>)
         \o MissingKeys(doc, sch.required)
         \o FieldErrors(doc, sch)

\* jsonschema.validate(output, schema): SchemaError for a schema that is
\* not well formed, else ValidationError with one of the errors, else None
JsonschemaValidate(doc, sch) ==
    IF ~sch.well_formed THEN [raises |-> "SchemaError", message |-> <<"schema", "is not valid">>]
    ELSE IF SchemaErrors(doc, sch) # <<>>
         THEN [raises |-> "ValidationError", message |-> Head(SchemaErrors(doc, sch))]
         ELSE [raises |-> "nothing", message |-> <<>>]

\* faulty variant: "except jsonschema.SchemaError: return True, []"
ValidatedIgnoringSchemaError(raised) ==
    IF raised.raises = "ValidationError" THEN <<FALSE, <<raised.message>>>>
    ELSE <<TRUE, <<>>>>

\* lines 191-200: the pair (valid, errors) for what jsonschema.validate did
Validated(raised) ==
    IF raised.raises = "nothing" THEN <<TRUE, <<>>>>
    ELSE IF raised.raises = "ValidationError" THEN <<FALSE, <<raised.message>>>>
    ELSE <<FALSE, << <<"Schema error:">> \o raised.message >> >>

validate_output(doc, sch) == Validated(JsonschemaValidate(doc, sch))

\* lines 223-236: output.get raises on a response that is not an object, and
\* ExtractionResult refuses a product_id that is not a string and
\* extracted_fields that is not a dict
ExtractionResult(doc, pair) ==
    IF doc.kind # "object" \/ doc.product_id = "number" \/ doc.extracted_fields = "array"
    THEN [raised |-> TRUE, valid |-> FALSE, validation_errors |-> <<>>]
    ELSE [raised |-> FALSE, valid |-> pair[1], validation_errors |-> pair[2]]

ExtractorInit ==
    /\ ScorerIdle
    /\ MatcherIdle
    /\ BoardIdle
    /\ BatchIdle
    /\ RepeatIdle
    /\ DbIdle
    /\ LookupIdle
    /\ schema \in Schemas
    /\ output \in Outputs
    /\ validated = None
    /\ extraction = None

\* valid, errors = extractor.validate_output(output)
ValidateOutput ==
    /\ validated = None
    /\ validated' = Some(validate_output(output, schema))
    /\ UNCHANGED <<schema, output, extraction>>
    /\ UNCHANGED <<scorer_vars, matcher_vars, board_vars, batch_vars, repeat_vars, db_vars, lookup_vars>>

\* result = extractor.extract(image_path, product_id), the response parsed
Extract ==
    /\ extraction = None
    /\ extraction' = Some(ExtractionResult(output, validate_output(output, schema)))
    /\ UNCHANGED <<schema, output, validated>>
    /\ UNCHANGED <<scorer_vars, matcher_vars, board_vars, batch_vars, repeat_vars, db_vars, lookup_vars>>

ExtractorNext == ValidateOutput \/ Extract

ExtractorSpec == ExtractorInit /\ [][ExtractorNext]_vars

----------------------------------------------------------------------------
(* What a finished call of score_brand lets one observe *)

ModeIndex == 1..Len(Modes)

ScoreOf(k) ==
    CASE Modes[k] = "cut" -> cut_score
      [] Modes[k] = "bulk" -> bulk_score
      [] Modes[k] = "clean" -> clean_score

\* score_mode has returned for the k-th mode
Computed(k) == ScoreOf(k) # None

Score(k) == Val(ScoreOf(k))

\* score_mode raised for the k-th mode (compute_metrics raises before the
\* spiking verdict exists)
RaisedIn(k) ==
    /\ pc = "raised"
    /\ amino_spiking # None
    /\ ~Computed(k)
    /\ \A j \in 1..(k - 1) : Computed(j)

\* the extracted nutrient fields of the record
Facts == data.nutrients.extracted_fields

Entries(k) == spec.modes[Modes[k]].hard_reject

IsMetricEntry(entry) == entry.name \notin {"amino_spiking_suspected", "added_sugar_present"}

\* the entry names a metric whose value is set and satisfies the entry's token
MetricSatisfies(entry) ==
    /\ IsMetricEntry(entry)
    /\ GetAttr(Val(metrics), entry.name) # None
    /\ _value_matches_range(Val(GetAttr(Val(metrics), entry.name)), entry.threshold).result

\* evaluating the entry's token against the metric's value raises
EntryRaises(entry) ==
    /\ IsMetricEntry(entry)
    /\ GetAttr(Val(metrics), entry.name) # None
    /\ _value_matches_range(Val(GetAttr(Val(metrics), entry.name)), entry.threshold).raised

\* the amino_spiking_suspected entry is switched on and the verdict is suspected
SpikingHolds(entry) ==
    /\ entry.name = "amino_spiking_suspected"
    /\ entry.threshold
    /\ Val(amino_spiking).suspected

EntryHolds(entry) == SpikingHolds(entry) \/ MetricSatisfies(entry)

MetricReason(entry) == Some(<<entry.name, " ">> \o entry.threshold)

EntryReason(entry) == IF IsMetricEntry(entry) THEN MetricReason(entry) ELSE Some(<<entry.name>>)

CredibilityReason == Some(<<"label_credibility_issues">>)

SafetyReason == Some(<<"safety_flags_unmet">>)

CredibilityDeclared(k) ==
    /\ Modes[k] \in DOMAIN spec.label_credibility.effects
    /\ spec.label_credibility.effects[Modes[k]].hard_reject

\* missing_macros or sodium_reported_zero, read off the record
CredibilityFlagged ==
    \/ Facts.protein_g_per_serving = None
    \/ Facts.carbohydrates_g_per_serving = None
    \/ Facts.total_fat_g_per_serving = None
    \/ (Facts.sodium_mg_per_serving # None /\ Val(Facts.sodium_mg_per_serving).n = 0)

SafetyDeclared(k) ==
    /\ Modes[k] \in DOMAIN spec.safety_flags.enforcement
    /\ spec.safety_flags.enforcement[Modes[k]].hard_reject_if_unknown

\* heavy_metals_tested is false or absent
HeavyMetalsUnknown == Facts.heavy_metals_tested \in {None, Some(FALSE)}

\* the cascade of the k-th mode: its hard_reject entries in document order,
\* then label credibility, then safety
Steps(k) ==
    [i \in 1..(Len(Entries(k)) + 2) |->
        IF i <= Len(Entries(k))
        THEN [holds |-> EntryHolds(Entries(k)[i]), reason |-> EntryReason(Entries(k)[i])]
        ELSE IF i = Len(Entries(k)) + 1
        THEN [holds |-> CredibilityDeclared(k) /\ CredibilityFlagged, reason |-> CredibilityReason]
        ELSE [holds |-> SafetyDeclared(k) /\ HeavyMetalsUnknown, reason |-> SafetyReason]]

Holding(k) == {i \in 1..(Len(Entries(k)) + 2) : Steps(k)[i].holds}

FirstHolding(k) == CHOOSE i \in Holding(k) : \A j \in Holding(k) : i <= j

NoEntryHolds(k) == \A i \in 1..Len(Entries(k)) : ~EntryHolds(Entries(k)[i])

NoEarlierEntryHolds(k, i) == \A j \in 1..(i - 1) : ~EntryHolds(Entries(k)[j])

\* the sum of one field over the items of component_scores that have it
RECURSIVE SumOf(_, _)
SumOf(items, fld) ==
    IF items = <<>> THEN 0
    ELSE (IF fld \in DOMAIN Head(items).item THEN Head(items).item[fld] ELSE 0)
         + SumOf(Tail(items), fld)

\* base_score and total_penalty recomputed from the breakdown, in 1/Grid
BaseOf(k) == SumOf(Score(k).component_scores, "contribution")

PenaltyOf(k) == SumOf(Score(k).component_scores, "deduction")

----------------------------------------------------------------------------
(* Claims *)

\* C1: a ModeScore returned by score_mode with hard_rejected = true has
\* total_score exactly 0.0 and a rejection_reason that is not None.
C1_RejectedScoreIsZeroWithReason ==
    \A k \in ModeIndex :
        Computed(k) /\ Score(k).hard_rejected =>
            Score(k).total_score = 0 /\ Score(k).rejection_reason # None

C1_Witness ==
    \E k \in ModeIndex :
        /\ Computed(k)
        /\ Score(k).hard_rejected
        /\ Score(k).rejection_reason = SafetyReason

\* C2: for a ModeScore that is not rejected, total_score is
\* round(base_score * (1 - total_penalty), 4), where base_score is the sum of
\* the 'contribution' fields and total_penalty the sum of the 'deduction'
\* fields of component_scores, the label credibility item included.
C2_TotalIsRecomputable ==
    \A k \in ModeIndex :
        Computed(k) /\ ~Score(k).hard_rejected =>
            \E tie_up \in BOOLEAN :
                Score(k).total_score = Round4(BaseOf(k) * (Grid - PenaltyOf(k)), tie_up)

C2_Witness ==
    \E k \in ModeIndex :
        /\ Computed(k)
        /\ ~Score(k).hard_rejected
        /\ \E i \in 1..Len(Score(k).component_scores) :
              /\ Score(k).component_scores[i].key = Key("penalty_", "label_credibility")
              /\ Score(k).component_scores[i].item.deduction > 0
        /\ \E i \in 1..Len(Score(k).component_scores) :
              /\ Score(k).component_scores[i].key = Key("penalty_", "sodium_mg")
              /\ Score(k).component_scores[i].item.deduction > 0
        /\ 0 < Score(k).total_score
        /\ Score(k).total_score < BaseOf(k)

\* C3: the cascade is evaluated in the order (a) the mode's hard_reject
\* entries in document order, (b) label credibility, (c) safety.  When any
\* step matches, the score is rejected with the reason of the earliest
\* matching step and nothing is aggregated; when none matches, the score is
\* not rejected.  A step after the earliest matching one is not evaluated: a
\* call raises only where no step matches before the entry that raises.
C3_EarliestMatchingStepDecides ==
    \A k \in ModeIndex :
        /\ Computed(k) /\ Holding(k) # {} =>
              /\ Score(k).hard_rejected
              /\ Score(k).rejection_reason = Steps(k)[FirstHolding(k)].reason
              /\ Score(k).component_scores = <<>>
              /\ Score(k).penalty_deduction = 0
        /\ Computed(k) /\ Holding(k) = {} => ~Score(k).hard_rejected
        /\ RaisedIn(k) /\ Holding(k) # {} =>
              \E i \in 1..Len(Entries(k)) :
                  EntryRaises(Entries(k)[i]) /\ i < FirstHolding(k)

C3_Witness ==
    /\ \E k \in ModeIndex :
          /\ Computed(k)
          /\ Cardinality(Holding(k)) = Len(Entries(k)) + 2
          /\ Score(k).rejection_reason = Steps(k)[1].reason
    /\ \E k \in ModeIndex :
          /\ Computed(k)
          /\ \E i \in 1..Len(Entries(k)) :
                EntryRaises(Entries(k)[i]) /\ FirstHolding(k) < i

\* C4: in a mode whose safety enforcement declares hard_reject_if_unknown, a
\* record whose heavy_metals_tested is false or absent is rejected, and the
\* reason is "safety_flags_unmet" when no earlier step of the cascade matches;
\* a record whose flag is true is never rejected with that reason.
C4_SafetyRejectsUnknown ==
    \A k \in ModeIndex :
        Computed(k) =>
            /\ SafetyDeclared(k) /\ HeavyMetalsUnknown =>
                  /\ Score(k).hard_rejected
                  /\ (NoEntryHolds(k) /\ ~(CredibilityDeclared(k) /\ CredibilityFlagged)
                        => Score(k).rejection_reason = SafetyReason)
            /\ Facts.heavy_metals_tested = Some(TRUE) =>
                  Score(k).rejection_reason # SafetyReason

C4_Witness ==
    /\ \E k \in ModeIndex :
          /\ Computed(k)
          /\ SafetyDeclared(k)
          /\ Facts.heavy_metals_tested = Some(FALSE)
          /\ Score(k).rejection_reason = SafetyReason
    /\ \E k \in ModeIndex :
          /\ Computed(k)
          /\ SafetyDeclared(k)
          /\ CredibilityDeclared(k) /\ CredibilityFlagged
          /\ Score(k).rejection_reason # SafetyReason

\* C5: in a mode whose label credibility effects declare hard_reject, a record
\* with missing_macros or sodium_reported_zero is rejected with the reason
\* "label_credibility_issues" whenever no hard_reject entry of the mode
\* rejects first; a record with both flags false is never rejected with that
\* reason.
C5_CredibilityRejectsFlagged ==
    \A k \in ModeIndex :
        Computed(k) =>
            /\ CredibilityDeclared(k) /\ CredibilityFlagged /\ NoEntryHolds(k) =>
                  /\ Score(k).hard_rejected
                  /\ Score(k).rejection_reason = CredibilityReason
            /\ ~CredibilityFlagged => Score(k).rejection_reason # CredibilityReason

C5_Witness ==
    \E k \in ModeIndex :
        /\ Computed(k)
        /\ CredibilityDeclared(k)
        /\ Facts.protein_g_per_serving # None
        /\ Facts.carbohydrates_g_per_serving # None
        /\ Facts.total_fat_g_per_serving # None
        /\ Facts.sodium_mg_per_serving = Num(0)
        /\ Score(k).rejection_reason = CredibilityReason

\* C6, as stated: whenever the value of the metric a hard_reject entry names
\* satisfies the entry's token, the record is rejected and the reason is that
\* metric's name followed by the token.
C6_ReasonAlwaysNamesTheMetric ==
    \A k \in ModeIndex :
        Computed(k) =>
            \A i \in 1..Len(Entries(k)) :
                MetricSatisfies(Entries(k)[i]) =>
                    /\ Score(k).hard_rejected
                    /\ Score(k).rejection_reason
                         = Some(<<Entries(k)[i].name, " ">> \o Entries(k)[i].threshold)

\* C6, amended: whenever the value of the metric a hard_reject entry names
\* satisfies the entry's token, the record is rejected; the reason is that
\* metric's name followed by the token when no earlier entry of the block
\* rejects.
C6_MetricEntryRejects ==
    \A k \in ModeIndex :
        Computed(k) =>
            \A i \in 1..Len(Entries(k)) :
                MetricSatisfies(Entries(k)[i]) =>
                    /\ Score(k).hard_rejected
                    /\ (NoEarlierEntryHolds(k, i) =>
                          Score(k).rejection_reason
                            = Some(<<Entries(k)[i].name, " ">> \o Entries(k)[i].threshold))

C6_Witness ==
    \E k \in ModeIndex :
        /\ Computed(k)
        /\ \E i \in 2..Len(Entries(k)) :
              /\ MetricSatisfies(Entries(k)[i])
              /\ Score(k).rejection_reason
                   = Some(<<Entries(k)[i].name, " ">> \o Entries(k)[i].threshold)

HasSpikingEntry(k) ==
    \E i \in 1..Len(Entries(k)) : Entries(k)[i].name = "amino_spiking_suspected"

RejectedForSpiking(k) ==
    Score(k).hard_rejected /\ Score(k).rejection_reason = Some(<<"amino_spiking_suspected">>)

\* C7, as stated: in a mode whose hard_reject block holds the
\* amino_spiking_suspected entry, the record is rejected with the reason
\* "amino_spiking_suspected" if and only if the verdict is suspected.
C7_RejectsIffSuspected ==
    \A k \in ModeIndex :
        Computed(k) /\ HasSpikingEntry(k) =>
            (RejectedForSpiking(k) <=> Val(amino_spiking).suspected)

\* C7, amended: in a mode whose hard_reject block holds the
\* amino_spiking_suspected entry, the record is rejected with the reason
\* "amino_spiking_suspected" if and only if the entry's value is true, the
\* verdict is suspected and no earlier entry of the block rejects.
C7_RejectsIffEnabledAndSuspected ==
    \A k \in ModeIndex :
        Computed(k) /\ HasSpikingEntry(k) =>
            (RejectedForSpiking(k) <=>
                \E i \in 1..Len(Entries(k)) :
                    /\ Entries(k)[i].name = "amino_spiking_suspected"
                    /\ Entries(k)[i].threshold
                    /\ Val(amino_spiking).suspected
                    /\ NoEarlierEntryHolds(k, i))

C7_Witness ==
    /\ \E k \in ModeIndex :
          Computed(k) /\ HasSpikingEntry(k) /\ RejectedForSpiking(k)
    /\ \E k \in ModeIndex :
          /\ Computed(k)
          /\ HasSpikingEntry(k)
          /\ Val(amino_spiking).suspected
          /\ ~Score(k).hard_rejected

\* the record reports added sugar
AddedSugarPresent == Truthy(Facts.added_sugar_g_per_serving) /\ Val(Facts.added_sugar_g_per_serving).n > 0

\* the clean block holds "added_sugar_present: true"
CleanRejectsAddedSugar ==
    \E i \in 1..Len(spec.modes.clean.hard_reject) :
        /\ spec.modes.clean.hard_reject[i].name = "added_sugar_present"
        /\ spec.modes.clean.hard_reject[i].threshold

\* C8: in clean mode, with the added_sugar_present entry in the hard_reject
\* block, a product whose record reports added sugar (added_sugar_g > 0) is
\* rejected.
C8_AddedSugarIsRejected ==
    clean_score # None /\ CleanRejectsAddedSugar /\ AddedSugarPresent =>
        Val(clean_score).hard_rejected

C8_Witness ==
    /\ clean_score # None
    /\ spec = SpecDocumented
    /\ AddedSugarPresent
    /\ ~Val(clean_score).hard_rejected
    /\ Val(clean_score).total_score > 0

\* every weight, normalized score and penalty of the specification is in [0, 1]
InUnit(x) == 0 <= x /\ x <= Scale

TableInUnit(tbl) ==
    \A name \in DOMAIN tbl : \A i \in 1..Len(tbl[name]) : InUnit(tbl[name][i].value)

WeightsInUnit(weights) == \A i \in 1..Len(weights) : InUnit(weights[i].weight)

SpecInUnit ==
    /\ TableInUnit(spec.normalization_ranges)
    /\ TableInUnit(spec.penalties)
    /\ \A mode \in DOMAIN spec.modes :
          /\ WeightsInUnit(spec.modes[mode].weights)
          /\ WeightsInUnit(spec.modes[mode].penalty_weights)
    /\ \A mode \in DOMAIN spec.label_credibility.effects :
          \/ spec.label_credibility.effects[mode].penalty = None
          \/ InUnit(Val(spec.label_credibility.effects[mode].penalty))

AbsentAddsZero(item) ==
    item.raw_value = None =>
        /\ "contribution" \in DOMAIN item => item.contribution = 0
        /\ "deduction" \in DOMAIN item => item.deduction = 0

\* C10: a metric that is absent for a record adds exactly 0.0 to the weighted
\* sum and to the penalty sum of every mode, and score_brand never raises,
\* whichever facts the record misses.
C10_MissingFactsNeverRaise ==
    /\ pc # "raised"
    /\ \A k \in ModeIndex :
          Computed(k) =>
              \A i \in 1..Len(Score(k).component_scores) :
                  AbsentAddsZero(Score(k).component_scores[i].item)

C10_Witness ==
    /\ pc = "raised"
    /\ data.aminoacids.kind = "null"
    /\ metrics = None

\* float() cannot parse some number of the token: the token raises for at
\* least one value it is tested against
Malformed(range_str) ==
    IF Branch(Remove(range_str, "%")) = "-"
    THEN \/ Len(Split(Remove(range_str, "%"), "-")) # 2
         \/ ParseFloat(Split(Remove(range_str, "%"), "-")[1]).raised
         \/ ParseFloat(Split(Remove(range_str, "%"), "-")[2]).raised
    ELSE \E v \in {R(0, 1)} : _value_matches_range(v, range_str).raised

TokensOf(ranges) == {ranges[i].range : i \in 1..Len(ranges)}

\* the range tokens of the tables score_mode consults for the k-th mode: the
\* hard_reject block, the normalization table of every weighted metric, and
\* for every penalized metric its penalty table or, without one, its
\* normalization table
ConsultedTokens(k) ==
    {Entries(k)[i].threshold : i \in {j \in 1..Len(Entries(k)) : IsMetricEntry(Entries(k)[j])}}
    \cup UNION {TokensOf(DictGet(spec.normalization_ranges, spec.modes[Modes[k]].weights[i].name)) :
                  i \in 1..Len(spec.modes[Modes[k]].weights)}
    \cup UNION {IF DictGet(spec.penalties, spec.modes[Modes[k]].penalty_weights[i].name) # <<>>
                THEN TokensOf(DictGet(spec.penalties, spec.modes[Modes[k]].penalty_weights[i].name))
                ELSE TokensOf(DictGet(spec.normalization_ranges,
                                      spec.modes[Modes[k]].penalty_weights[i].name)) :
                  i \in 1..Len(spec.modes[Modes[k]].penalty_weights)}

HasMalformedToken(k) == \E t \in ConsultedTokens(k) : Malformed(t)

\* C11: when a range table consulted for a mode (normalization, penalty or
\* hard_reject) holds an unparseable token, score_mode raises for that mode
\* and returns no ModeScore: a ModeScore is returned only where no consulted
\* table holds such a token.
C11_MalformedTokenAlwaysRaises ==
    \A k \in ModeIndex : Computed(k) => ~HasMalformedToken(k)

C11_Witness ==
    /\ \E k \in ModeIndex :
          /\ Computed(k)
          /\ HasMalformedToken(k)
          /\ ~Score(k).hard_rejected
          /\ Score(k).total_score > 0
    /\ \E k \in ModeIndex :
          /\ Computed(k)
          /\ \E i \in 1..Len(Entries(k)) : IsMetricEntry(Entries(k)[i]) /\ Malformed(Entries(k)[i].threshold)
          /\ Val(metrics).leucine_g_per_serving = None

\* what the grammar says a token of the given form returns for a value
Expected(form, value, low, high) ==
    CASE form = ">=" -> RLe(low, value)
      [] form = ">"  -> RLt(low, value)
      [] form = "<=" -> RLe(value, low)
      [] form = "<"  -> RLt(value, low)
      [] form = "-"  -> RLe(low, value) /\ RLe(value, high)
      [] form = "==" -> REq(value, low)

PlaceOf(brand) == CHOOSE i \in 1..Len(results) : results[i].brand = brand

Board == Val(leaderboard)

\* the results that have a score for the mode
Ranked == {i \in 1..Len(results) : ModeScoreOf(results[i], board_mode) # None}

\* the leaderboard holds one tuple for each result that has a score for the
\* mode, with that result's score and rejection flag
BoardHoldsTheRanked ==
    /\ Len(Board) = Cardinality(Ranked)
    /\ \A i \in Ranked : \E j \in 1..Len(Board) :
          Board[j] = <<results[i].brand,
                       Val(ModeScoreOf(results[i], board_mode)).total_score,
                       Val(ModeScoreOf(results[i], board_mode)).hard_rejected>>

\* C13: in the leaderboard of a mode every record that is not rejected comes
\* before every rejected record, whatever the rejected records' scores, and
\* the records that are not rejected are in non-increasing order of
\* total_score.
C13_RejectedLastThenScoreDescending ==
    leaderboard # None =>
        /\ BoardHoldsTheRanked
        /\ \A i, j \in 1..Len(Board) :
              i < j =>
                  /\ ~Board[j][3] => ~Board[i][3]
                  /\ ~Board[i][3] /\ ~Board[j][3] => Board[i][2] >= Board[j][2]

C13_Witness ==
    /\ leaderboard # None
    /\ Len(Board) = 3
    /\ results[1].cut_score = AnyScore(9000, TRUE)
    /\ Board[1][2] = 8000 /\ Board[2][2] = 5000
    /\ Board[3] = <<"b1", 9000, TRUE>>

\* C14: two records with the same rejection status and the same total_score
\* are in the leaderboard in the order in which they are in the results.
C14_TiesKeepInputOrder ==
    leaderboard # None =>
        \A i, j \in 1..Len(Board) :
            i < j /\ Board[i][3] = Board[j][3] /\ Board[i][2] = Board[j][2] =>
                PlaceOf(Board[i][1]) < PlaceOf(Board[j][1])

C14_Witness ==
    /\ leaderboard # None
    /\ Len(Board) = 3
    /\ results[1].cut_score = AnyScore(5000, FALSE)
    /\ results[2].cut_score = AnyScore(8000, FALSE)
    /\ results[3].cut_score = AnyScore(5000, FALSE)
    /\ board_mode = "cut"
    /\ Board[2][1] = "b1" /\ Board[3][1] = "b3"

\* the entries of the listing that are fact records: directories that are
\* not hidden and hold their JSON file
IsRecord(entry) == entry.is_dir /\ ~StartsWithDot(entry.name) /\ entry.json # None

RecordsListed == SelectSeq(listing, IsRecord)

\* the result is the one score_brand gives for the record
ResultOf(scores, record) ==
    /\ scores.brand = (IF record.brand = None THEN Unknown ELSE Val(record.brand))
    /\ scores.metrics = compute_metrics(record).val

\* C15: score_all_brands returns exactly one result for each fact record of
\* the collection, in the order in which the collection is enumerated: none
\* is dropped, duplicated or reordered.
C15_OneResultPerRecordInOrder ==
    batch_pc = "returned" =>
        /\ Len(batch_results) = Len(RecordsListed)
        /\ \A i \in 1..Len(batch_results) :
              ResultOf(batch_results[i], Val(RecordsListed[i].json))

C15_Witness ==
    /\ batch_pc = "returned"
    /\ Len(listing) = 3
    /\ ~IsRecord(listing[2])
    /\ Len(batch_results) = 2
    /\ batch_results[1].brand = <<"d", "1">>
    /\ batch_results[2].brand = <<"d", "3">>

\* two optional quantities are both unset or are the same number
SameQuantity(x, y) == IF x = None \/ y = None THEN x = y ELSE REq(Val(x), Val(y))

AminoFields == data.aminoacids.extracted_fields

\* the factor the declared basis asks for
FactorDeclared ==
    IF AminoFields.serving_basis = Some("per_100g")
       /\ data.nutrients.extracted_fields.serving_size_g # None
    THEN RDiv(Val(data.nutrients.extracted_fields.serving_size_g), R(100, 1))
    ELSE R(1, 1)

PerServing(x) == IF x = None THEN None ELSE Some(RMul(Val(x), FactorDeclared))

\* x / y where both are set
RatioOf(x, y) == IF x = None \/ y = None THEN None ELSE Some(RDiv(Val(x), Val(y)))

\* C16: with serving_basis "per_100g" and serving_size_g present, the
\* essential total, the branched-chain total, leucine and taurine are
\* multiplied by serving_size_g / 100 before eaas_pct_raw, eaas_pct,
\* leucine_g_per_serving and taurine_g are derived from them, and
\* bcaas_pct_of_eaas, a ratio of two of them, is the ratio as declared; with
\* any other basis they are used as declared.
C16_Per100gIsRescaledToServing ==
    metrics # None /\ pc # "idle" =>
        LET m == Val(metrics)
            raw == RatioOf(PerServing(AminoFields.eaas.total_g),
                           data.nutrients.extracted_fields.protein_g_per_serving)
        IN  /\ SameQuantity(m.leucine_g_per_serving, PerServing(AminoFields.eaas.bcaas.leucine_g))
            /\ SameQuantity(m.taurine_g, PerServing(AminoFields.seaas.taurine_g))
            /\ SameQuantity(m.eaas_pct_raw, raw)
            /\ SameQuantity(m.eaas_pct, IF raw = None THEN None ELSE Some(RMin(Val(raw), R(1, 1))))
            /\ SameQuantity(m.bcaas_pct_of_eaas,
                            RatioOf(AminoFields.eaas.bcaas.total_g, AminoFields.eaas.total_g))

C16_Witness ==
    /\ metrics # None
    /\ AminoFields.serving_basis = Some("per_100g")
    /\ data.nutrients.extracted_fields.serving_size_g = Num(50)
    /\ AminoFields.eaas.total_g = Num(14)
    /\ AminoFields.eaas.bcaas.leucine_g = Num(2)
    /\ AminoFields.seaas.taurine_g = Num(1)
    /\ SameQuantity(Val(metrics).eaas_pct_raw, Some(R(35, 100)))
    /\ SameQuantity(Val(metrics).leucine_g_per_serving, Num(1))
    /\ SameQuantity(Val(metrics).taurine_g, Some(R(1, 2)))

Spiking == Val(amino_spiking)

MinRulesRequired == spec.amino_spiking_detection.trigger.min_rules_required

\* the rule is among the triggered ones
Triggers(rule) == \E i \in 1..Len(Spiking.triggered_rules) : Spiking.triggered_rules[i] = rule

\* essential fraction 0.35 and branched-chain fraction 0.65
LowAndDominant ==
    /\ SameQuantity(Val(metrics).eaas_pct, Some(R(35, 100)))
    /\ SameQuantity(Val(metrics).bcaas_pct_of_eaas, Some(R(65, 100)))

\* C17: suspected is true exactly when the number of triggered rules is at
\* least trigger.min_rules_required, each rule counting once; a record with
\* essential fraction 0.35 and branched-chain fraction 0.65 triggers low_eaas
\* and bcaas_dominant and is suspected when min_rules_required <= 2.
C17_SuspectedIffEnoughRules ==
    amino_spiking # None /\ pc # "idle" =>
        /\ Spiking.suspected <=>
              Cardinality({rule \in {"glycine_disproportion", "low_eaas", "bcaas_dominant",
                                     "eaas_exceed_protein", "taurine_present"} :
                             Triggers(rule)}) >= MinRulesRequired
        /\ Len(Spiking.triggered_rules)
              = Cardinality({Spiking.triggered_rules[i] : i \in 1..Len(Spiking.triggered_rules)})
        /\ LowAndDominant =>
              /\ Triggers("low_eaas") /\ Triggers("bcaas_dominant")
              /\ MinRulesRequired <= 2 => Spiking.suspected

C17_Witness ==
    /\ amino_spiking # None /\ pc # "idle"
    /\ LowAndDominant
    /\ Spiking.triggered_rules = <<"low_eaas", "bcaas_dominant">>
    /\ MinRulesRequired = 2
    /\ Spiking.suspected

\* the second call of score_brand is over
CalledTwice == previous # None /\ pc \in {"done", "raised"}

RowsOf(d, brand_row) ==
    [brands |-> {r \in d.brands : r.id = brand_row.id},
     nutrients |-> {r \in d.nutrients : r.brand_id = brand_row.id},
     aminoacids |-> {r \in d.aminoacids : r.brand_id = brand_row.id},
     scores |-> {r \in d.scores : r.brand_id = brand_row.id},
     explanations |-> {r \in d.explanations : r.brand_id = brand_row.id}]

\* a call of push_brand that returns success = False leaves every table as
\* it was
FailureWritesNothing == pushes' > pushes /\ ~Val(pushed').success /\ ~Val(pushed').raised => db' = db

\* C19: a call of push_brand that returns success = False has inserted,
\* updated or deleted no row of any table, and the rows of a brand that is
\* already in the database are changed only by a call with force = true.
C19_FailureWritesNothingOverwriteNeedsForce ==
    [][/\ FailureWritesNothing
       /\ pushes' > pushes =>
             \A brand_row \in db.brands :
                 RowsOf(db', brand_row) # RowsOf(db, brand_row) => Val(pushed').force]_vars

\* a call without force for a directory whose brand is not in the database
\* has overwritten the rows of the brand its JSON file names
C19_Witness ==
    /\ pushed # None
    /\ Val(pushed).success /\ ~Val(pushed).force
    /\ Val(pushed).brand_name = "bolt"
    /\ pushes = 1
    /\ db.brands = {[id |-> 1, name |-> "acme", extraction_timestamp |-> 2]}
    /\ \A r \in db.explanations : r.explanation = "new"

\* the document has the shape the schema asks for
Conforms(doc, sch) ==
    IF doc.kind # "object" THEN sch.type # Some("object")
    ELSE /\ doc.product_id # "number"
         /\ \A i \in 1..Len(sch.required) : ValueOf(doc, sch.required[i]) # "missing"
         /\ doc.extracted_fields # "array"
         /\ doc.extracted_fields = "object" =>
               /\ Len(sch.fields_required) > 0 => doc.serving_size_g # "missing"
               /\ doc.serving_size_g # "string"
               /\ sch.basis_enum # None /\ doc.serving_basis # "missing" =>
                     doc.serving_basis \in Val(sch.basis_enum)

NutrientFields == data.nutrients.extracted_fields

\* C21: for a record declared per 100 g the glycine_ratio of the spiking
\* result is the glycine mass rescaled by serving_size_g / 100, divided by
\* protein_g_per_serving; for any other basis it is the declared glycine mass
\* divided by protein_g_per_serving.
C21_GlycineRatioIsPerServing ==
    amino_spiking # None /\ pc # "idle" =>
        SameQuantity(Spiking.glycine_ratio,
                     RatioOf(PerServing(AminoFields.seaas.glycine_g),
                             NutrientFields.protein_g_per_serving))

\* glycine 2 g per 100 g with a serving of 30 g is 0.6 g of 20 g protein,
\* a ratio of 0.03; the result reports 0.1 and triggers the rule
C21_Witness ==
    /\ amino_spiking # None /\ pc # "idle"
    /\ AminoFields.serving_basis = Some("per_100g")
    /\ NutrientFields.serving_size_g = Num(30)
    /\ AminoFields.seaas.glycine_g = Num(2)
    /\ NutrientFields.protein_g_per_serving = Num(20)
    /\ SameQuantity(Spiking.glycine_ratio, Some(R(1, 10)))
    /\ Triggers("glycine_disproportion")

\* both operands of a ratio are present in the fact record
BothPresent(x, y) == x # None /\ y # None

\* the metric is the quotient x / y * factor of two present operands, the
\* quotient being defined for y # 0, and is unset without one of them
IsQuotient(metric, x, y, factor) ==
    IF BothPresent(x, y)
    THEN /\ metric # None
         /\ Val(y).n # 0 => REq(Val(metric), RMul(RDiv(Val(x), Val(y)), R(factor, 1)))
    ELSE metric = None

\* C22: each ratio metric (protein_pct, protein_per_100_kcal, eaas_pct_raw,
\* bcaas_pct_of_eaas) is the quotient of its two operands whenever both are
\* present (non-null) in the fact record, and is unset whenever one of them
\* is absent.
C22_RatioSetIffBothPresent ==
    metrics # None /\ pc # "idle" =>
        /\ IsQuotient(Val(metrics).protein_pct,
                      NutrientFields.protein_g_per_serving, NutrientFields.serving_size_g, 100)
        /\ IsQuotient(Val(metrics).protein_per_100_kcal,
                      NutrientFields.protein_g_per_serving, NutrientFields.energy_kcal_per_serving, 100)
        /\ IsQuotient(Val(metrics).eaas_pct_raw,
                      AminoFields.eaas.total_g, NutrientFields.protein_g_per_serving, 1)
        /\ IsQuotient(Val(metrics).bcaas_pct_of_eaas,
                      AminoFields.eaas.bcaas.total_g, AminoFields.eaas.total_g, 1)

\* an essential total of 0 g is present beside 20 g protein, and the
\* essential fraction is unset instead of 0
C22_Witness ==
    /\ metrics # None /\ pc # "idle"
    /\ AminoFields.eaas.total_g = Num(0)
    /\ NutrientFields.protein_g_per_serving = Num(20)
    /\ Val(metrics).eaas_pct_raw = None
    /\ Val(metrics).eaas_pct = None

\* C23: eaas_pct and eaas_pct_raw are both unset or both set; when set,
\* eaas_pct is the smaller of eaas_pct_raw and 1, so it never exceeds 1 while
\* eaas_pct_raw keeps the uncapped ratio, and the eaas_exceed_protein rule
\* is triggered exactly when the uncapped ratio exceeds 1.
C23_EssentialFractionIsCapped ==
    metrics # None /\ pc # "idle" =>
        /\ Val(metrics).eaas_pct = None <=> Val(metrics).eaas_pct_raw = None
        /\ Val(metrics).eaas_pct # None =>
              /\ RLe(Val(Val(metrics).eaas_pct), R(1, 1))
              /\ RLe(Val(Val(metrics).eaas_pct), Val(Val(metrics).eaas_pct_raw))
              /\ \/ REq(Val(Val(metrics).eaas_pct), Val(Val(metrics).eaas_pct_raw))
                 \/ REq(Val(Val(metrics).eaas_pct), R(1, 1))
              /\ SameQuantity(Val(metrics).eaas_pct_raw,
                              RatioOf(PerServing(AminoFields.eaas.total_g),
                                      NutrientFields.protein_g_per_serving))
        /\ amino_spiking # None =>
              (Triggers("eaas_exceed_protein") <=>
                  /\ Val(metrics).eaas_pct_raw # None
                  /\ RLt(R(1, 1), Val(Val(metrics).eaas_pct_raw)))

\* 30 g essential amino acids of 20 g protein: raw 1.5, capped 1
C23_Witness ==
    /\ amino_spiking # None /\ pc # "idle"
    /\ SameQuantity(Val(metrics).eaas_pct_raw, Some(R(3, 2)))
    /\ SameQuantity(Val(metrics).eaas_pct, Some(R(1, 1)))
    /\ Triggers("eaas_exceed_protein")

\* the rules in the order in which detect_amino_spiking evaluates them
RuleOrder ==
    <<"glycine_disproportion", "low_eaas", "bcaas_dominant", "eaas_exceed_protein", "taurine_present">>

\* the metric is set and satisfies the comparison with the limit
Below(metric, limit) == metric # None /\ RLt(Val(metric), limit)

Above(metric, limit) == metric # None /\ RLt(limit, Val(metric))

\* the condition of the rule, on the metrics and the reported glycine ratio
ConditionHolds(rule) ==
    CASE rule = "glycine_disproportion" -> Above(Spiking.glycine_ratio, R(5, 100))
      [] rule = "low_eaas" -> Below(Val(metrics).eaas_pct, R(40, 100))
      [] rule = "bcaas_dominant" -> Above(Val(metrics).bcaas_pct_of_eaas, R(60, 100))
      [] rule = "eaas_exceed_protein" -> Above(Val(metrics).eaas_pct_raw, R(1, 1))
      [] rule = "taurine_present" -> Above(Val(metrics).taurine_g, R(0, 1))

\* C24: triggered_rules holds exactly the rules whose condition holds, each
\* once, in the order glycine_disproportion, low_eaas, bcaas_dominant,
\* eaas_exceed_protein, taurine_present; the glycine ratio is reported
\* exactly when glycine and protein are both present.
C24_TriggeredRulesInFixedOrder ==
    amino_spiking # None /\ pc # "idle" =>
        /\ Spiking.triggered_rules = SelectSeq(RuleOrder, ConditionHolds)
        /\ Spiking.glycine_ratio # None <=>
              BothPresent(AminoFields.seaas.glycine_g, NutrientFields.protein_g_per_serving)

C24_Witness ==
    /\ amino_spiking # None /\ pc # "idle"
    /\ Spiking.triggered_rules = <<"glycine_disproportion", "low_eaas", "bcaas_dominant", "taurine_present">>


----------------------------------------------------------------------------
(* Lookups in the range tables *)

NormTable == DictGet(query.tables.normalization_ranges, query.metric_name)

PenaltyTable == DictGet(query.tables.penalties, query.metric_name)

\* the positions of the entries of a table that the looked-up value matches
Hits(table) ==
    {i \in 1..Len(table) : _value_matches_range(Val(query.value), table[i].range).result}

FirstHit(table) == table[CHOOSE i \in Hits(table) : \A j \in Hits(table) : i <= j].value

LastHit(table) == table[CHOOSE i \in Hits(table) : \A j \in Hits(table) : j <= i].value

LookedUp == lookup_score # None /\ lookup_penalty # None /\ query.value # None

\* C25: when entries of a metric's range table match a value, normalize_value
\* and get_penalty_value return the score / penalty of the first matching
\* entry in document order; a later matching entry never overrides it.
C25_FirstMatchingEntryWins ==
    LookedUp =>
        /\ Hits(NormTable) # {} =>
              Val(lookup_score) = [raised |-> FALSE, val |-> FirstHit(NormTable)]
        /\ Hits(PenaltyTable) # {} =>
              Val(lookup_penalty) = [raised |-> FALSE, val |-> FirstHit(PenaltyTable)]

\* sodium 100 matches "<=100" and "100-250" in both documented tables
C25_Witness ==
    /\ LookedUp
    /\ Cardinality(Hits(NormTable)) > 1
    /\ Cardinality(Hits(PenaltyTable)) > 1
    /\ FirstHit(NormTable) # LastHit(NormTable)
    /\ FirstHit(PenaltyTable) # LastHit(PenaltyTable)
    /\ Val(lookup_score).val = FirstHit(NormTable)
    /\ Val(lookup_penalty).val = FirstHit(PenaltyTable)

\* the penalty comes from the normalization table: no explicit penalty table
Fallback == PenaltyTable = <<>> /\ NormTable # <<>>

\* the table get_penalty_value consults for the metric
ConsultedTable == IF PenaltyTable # <<>> THEN PenaltyTable ELSE NormTable

\* C26 as stated: if no entry of a metric's range table matches a present
\* value, normalize_value gives 0.0 and get_penalty_value gives 0.0, for
\* every metric and value.
C26_NoMatchGivesZeroScoreAndZeroPenalty ==
    LookedUp =>
        /\ Hits(NormTable) = {} => Val(lookup_score) = [raised |-> FALSE, val |-> 0]
        /\ Hits(ConsultedTable) = {} => Val(lookup_penalty) = [raised |-> FALSE, val |-> 0]

\* C26: if no entry of the table consulted matches a present value,
\* normalize_value gives 0.0; get_penalty_value gives 0.0 when the metric
\* has an explicit penalty table or no table at all, and 1.0, the complement
\* of the 0.0 default score, when it falls back to the normalization table.
C26_NoMatchGivesDefault ==
    LookedUp =>
        /\ Hits(NormTable) = {} => Val(lookup_score) = [raised |-> FALSE, val |-> 0]
        /\ Hits(ConsultedTable) = {} =>
              Val(lookup_penalty) = [raised |-> FALSE, val |-> IF Fallback THEN Scale ELSE 0]

\* non-protein macros 0 match no entry of the gapped normalization table,
\* and the metric has no explicit penalty table
C26_Witness ==
    /\ LookedUp
    /\ Fallback
    /\ Hits(NormTable) = {}
    /\ Val(lookup_score).val = 0
    /\ Val(lookup_penalty).val = Scale

\* C27: a metric with no explicit penalty table but with a normalization
\* table is penalized by 1 minus normalize_value(metric, value); when an
\* explicit penalty table exists the penalty comes from that table and the
\* complement is never used.
C27_ComplementOnlyWithoutExplicitTable ==
    LookedUp =>
        /\ Fallback => /\ ~Val(lookup_penalty).raised
                       /\ Val(lookup_penalty).val = Scale - Val(lookup_score).val
        /\ PenaltyTable # <<>> =>
              Val(lookup_penalty).val =
                  IF Hits(PenaltyTable) = {} THEN 0 ELSE FirstHit(PenaltyTable)

\* a fallback penalty of 0.5 for a normalized score of 0.5
C27_Witness ==
    /\ LookedUp
    /\ Fallback
    /\ Val(lookup_score).val = 50
    /\ Val(lookup_penalty).val = 50


----------------------------------------------------------------------------
(* The label credibility penalty *)

CredibilityKey == Key("penalty_", "label_credibility")

\* the flat penalty the label credibility effects declare for mode k
FlatPenalty(k) == EffectsOf(spec, Modes[k]).penalty

CredibilityItems(k) ==
    {i \in 1..Len(Score(k).component_scores) :
        Score(k).component_scores[i].key = CredibilityKey}

NotCredibilityItem(entry) == entry.key # CredibilityKey

\* the deductions of the penalty loop, read off the breakdown
OtherDeductions(k) ==
    SumOf(SelectSeq(Score(k).component_scores, NotCredibilityItem), "deduction")

\* C28: for a mode that is not rejected and whose label credibility effects
\* declare a flat penalty p > 0, the total penalty includes p exactly once and
\* component_scores has a separate penalty_label_credibility entry with
\* deduction p if and only if missing_macros or sodium_reported_zero is set;
\* with both flags unset nothing is added.
C28_FlatPenaltyOnceIffFlagged ==
    \A k \in ModeIndex :
        Computed(k) /\ ~Score(k).hard_rejected /\ FlatPenalty(k) # None =>
            (Val(FlatPenalty(k)) > 0 =>
                /\ Cardinality(CredibilityItems(k)) <= 1
                /\ CredibilityFlagged <=>
                      \E i \in CredibilityItems(k) :
                          /\ Score(k).component_scores[i].item.deduction
                                 = Val(FlatPenalty(k)) * Scale
                          /\ Score(k).component_scores[i].item.penalty = Val(FlatPenalty(k))
                /\ \E tie_up \in BOOLEAN :
                      Score(k).penalty_deduction =
                          Round4((OtherDeductions(k)
                                  + IF CredibilityFlagged THEN Val(FlatPenalty(k)) * Scale
                                    ELSE 0) * Grid, tie_up))

\* both flags set, the flat penalty itemized and deducted once
C28_Witness ==
    \E k \in ModeIndex :
        /\ Computed(k)
        /\ ~Score(k).hard_rejected
        /\ FlatPenalty(k) # None
        /\ Val(metrics).missing_macros
        /\ Val(metrics).sodium_reported_zero
        /\ Cardinality(CredibilityItems(k)) = 1
        /\ Score(k).penalty_deduction = (OtherDeductions(k) + Val(FlatPenalty(k)) * Scale)


----------------------------------------------------------------------------
(* hard_reject entries on metrics that are unset *)

\* the entry names a metric that has no value for the record
UnsetEntry(entry) == IsMetricEntry(entry) /\ GetAttr(Val(metrics), entry.name) = None

\* no range table of the specification holds a token float() cannot parse
WellFormedTables == spec.normalization_ranges = NormalizationRanges /\ spec.penalties = Penalties

\* the reason of the k-th score is the reason of one of its metric entries
IsMetricReason(k) ==
    \E i \in 1..Len(Entries(k)) :
        IsMetricEntry(Entries(k)[i]) /\ Score(k).rejection_reason = MetricReason(Entries(k)[i])

\* C29: a hard_reject entry that names a metric never rejects a record for
\* which that metric is unset: the entry is skipped without error and without
\* rejection, and the cascade goes on with the next entry.
C29_UnsetMetricNeverRejects ==
    \A k \in ModeIndex :
        /\ Computed(k) =>
              \A i \in 1..Len(Entries(k)) :
                  UnsetEntry(Entries(k)[i]) =>
                      /\ Score(k).rejection_reason # MetricReason(Entries(k)[i])
                      /\ \A j \in (i + 1)..Len(Entries(k)) :
                            EntryHolds(Entries(k)[j]) /\ NoEarlierEntryHolds(k, j) =>
                                /\ Score(k).hard_rejected
                                /\ Score(k).rejection_reason = EntryReason(Entries(k)[j])
        /\ Computed(k) /\ Score(k).hard_rejected /\ IsMetricReason(k) =>
              \E i \in 1..Len(Entries(k)) : MetricSatisfies(Entries(k)[i])
        /\ RaisedIn(k) /\ WellFormedTables =>
              \E i \in 1..Len(Entries(k)) : EntryRaises(Entries(k)[i])

\* protein_per_100_kcal is unset, its entry "<18" is passed over and the next
\* entry, on leucine, rejects
C29_Witness ==
    \E k \in ModeIndex :
        /\ Computed(k)
        /\ Len(Entries(k)) >= 2
        /\ UnsetEntry(Entries(k)[1])
        /\ MetricSatisfies(Entries(k)[2])
        /\ Score(k).hard_rejected
        /\ Score(k).rejection_reason = MetricReason(Entries(k)[2])


----------------------------------------------------------------------------
(* low_eaas and eaas_exceed_protein *)

EaasRulesOnly ==
    \A i \in 1..Len(Spiking.triggered_rules) :
        Spiking.triggered_rules[i] \in {"low_eaas", "eaas_exceed_protein"}

\* C30: low_eaas and eaas_exceed_protein are never both in triggered_rules:
\* a record whose uncapped essential fraction exceeds 1.0 has the capped
\* fraction 1.0 and does not trigger low_eaas, so these two rules alone never
\* reach a threshold of 2.
C30_LowAndExceedExclude ==
    amino_spiking # None /\ pc # "idle" =>
        /\ ~(Triggers("low_eaas") /\ Triggers("eaas_exceed_protein"))
        /\ Triggers("eaas_exceed_protein") =>
              /\ SameQuantity(Val(metrics).eaas_pct, Some(R(1, 1)))
              /\ RLt(R(1, 1), Val(Val(metrics).eaas_pct_raw))
        /\ Triggers("low_eaas") => RLt(Val(Val(metrics).eaas_pct_raw), R(40, 100))
        /\ EaasRulesOnly => Len(Spiking.triggered_rules) <= 1
        /\ EaasRulesOnly /\ MinRulesRequired >= 2 => ~Spiking.suspected

\* eaas_exceed_protein alone, under a threshold of 2: not suspected
C30_Witness ==
    /\ amino_spiking # None /\ pc # "idle"
    /\ Spiking.triggered_rules = <<"eaas_exceed_protein">>
    /\ MinRulesRequired = 2
    /\ ~Spiking.suspected
    /\ RLt(R(1, 1), Val(Val(metrics).eaas_pct_raw))

====
